---- MODULE Spec2Model ----
(***************************************************************************)
(* A model of minio-rs: the chunk-read pipelines of                        *)
(* examples/file_upload_io_uring.rs (tokio_example::run, the sequential    *)
(* driver, and uring_example::run, the windowed driver) and the request    *)
(* path of the admin client (MadminApi::send, MadminRequest::execute,      *)
(* the request builders and check_bucket_name), the headers and body of    *)
(* one transmission, the content hash (sha256_hash_sb, computed as         *)
(* SHA-256) and concurrent requests on the region map.                     *)
(***************************************************************************)
EXTENDS Integers, Sequences, FiniteSets, TLC

(***************************************************************************)
(* Bounds of the model.                                                    *)
(***************************************************************************)
MaxTotal == 4
MaxChunk == 2
MaxConcurrency == 3
MaxClock == 3
MaxRequests == 2

(***************************************************************************)
(* The clock of the model counts half seconds: to_amz_date formats a time  *)
(* with "%Y%m%dT%H%M%SZ", to the second.                                   *)
(***************************************************************************)
TicksPerSecond == 2

VARIABLES
    \* ---- the pipelines (examples/file_upload_io_uring.rs) ----
    driver,        \* args.backend: "tokio" or "uring"
    upload,        \* whether the driver hands each chunk it has read to dummy_upload:
                   \* always in tokio_example::run; in uring_example::run the call
                   \* (line 218) is commented out, and TRUE is the driver with the
                   \* call in place, where the completed read is consumed
    total_size,    \* the size of the source file in bytes
    chunk_size,    \* args.chunk_mib * 1024 * 1024
    concurrency,   \* args.concurrency
    offset,        \* the local `offset` of run
    rd_pos,        \* the position of the tokio BufReader in the file
    fill_i,        \* the iteration count of the initial fill loop
    in_flight,     \* the Vec of pending reads, each named by its offset
    dropped,       \* the pending reads dropped when the loop is left early
    cur,           \* the chunk handed to dummy_upload: [off, n], or NoChunk
    pipe_pc,       \* where run is: fill, read, select, upload, done, eof, panic
    started,       \* history: offsets of the reads started, in order
    completed,     \* history: [off, n] of the reads completed, in order
    sent,          \* history: [off, n] of the chunks transmitted, in order
    acked,         \* history: [off, ok] of the transmissions completed, in order
    \* ---- the request path (madmin/types.rs, the builders) ----
    now,           \* the clock utc_now() reads
    has_provider,  \* whether the client has a credential provider
    region_map,    \* shared.region_map: bucket name -> region, or NoRegion
    map0,          \* history: region_map when the logical request began
    req_pc,        \* idle, built, sent, returned
    nreq,          \* the number of logical requests begun
    builder,       \* the request builder the caller made, or NoBuilder
    desc,          \* the MadminRequest built from it: [bucket], or NoDesc
    fate,          \* what the network and the server answer to attempt 1, 2
    attempts,      \* the number of transmissions of this logical request
    validations,   \* the number of validations of this logical request
    result,        \* what the logical request returned, or NoResult
    attempt_log,   \* history: the attempts of all requests, in order
    \* ---- one call of MadminRequest::execute, up to the transmission ----
    mreq,          \* the MadminRequest (self): [method, headers, body], or NoRequest
    shared_provider, \* shared.provider of the client of that call: NoProvider,
                   \* or [session_token] (has_provider is the client of the
                   \* request path above)
    wire,          \* the HTTP request transmitted: [method, headers, body], or NoWire
    exec_result,   \* what that call of execute returned, or NotComputed
    \* ---- one call of sha256_hash_sb (s3/utils.rs) ----
    sb_chunks,     \* the SegmentedBytes: the sequence of its chunks
    sb_len,        \* what len() of it returned, or NotComputed
    sb_hash,       \* what sha256_hash_sb of it returned, or NotComputed
    \* ---- one call of check_bucket_name (s3/utils.rs) ----
    cbn_name,      \* the bucket name passed
    cbn_result,    \* what check_bucket_name(cbn_name, true) returned, or NotComputed
    \* ---- concurrent requests of one client on the region map ----
    task_pc,       \* where each request is: idle, resolving, discover, sent
    task_bucket,   \* the bucket of each request
    cache_log,     \* history: the operations on region_map, in the order they
                   \* took effect
    \* ---- one call of a function of s3/utils.rs, s3/response or
    \*      s3/bucket_policy_config.rs ----
    call_args,     \* the arguments of the call (the object it is called on)
    call_iter,     \* the state of the iteration, for an iterator
    call_ret       \* what the call returned, or NotComputed; for an iterator,
                   \* what it yielded so far

pipeVars == <<driver, upload, total_size, chunk_size, concurrency, offset,
              rd_pos, fill_i, in_flight, dropped, cur, pipe_pc, started,
              completed, sent, acked>>

reqVars == <<now, has_provider, region_map, map0, req_pc, nreq, builder, desc,
             fate, attempts, validations, result, attempt_log>>

execVars == <<mreq, shared_provider, wire, exec_result>>

hashVars == <<sb_chunks, sb_len, sb_hash>>

nameVars == <<cbn_name, cbn_result>>

taskVars == <<task_pc, task_bucket, cache_log>>

callVars == <<call_args, call_iter, call_ret>>

fnVars == <<execVars, hashVars, nameVars, taskVars, callVars>>

vars == <<pipeVars, reqVars, fnVars>>

NoRequest == [method |-> "none"]

NoProvider == [kind |-> "none"]

NoWire == [kind |-> "none"]

(* The result of a call is an Option: empty until the call has returned. *)
NotComputed == <<>>

(***************************************************************************)
(* The state of the single calls while a pipeline or the request path is   *)
(* running: nothing was called.                                            *)
(***************************************************************************)
ExecuteAtRest ==
    /\ mreq = NoRequest
    /\ shared_provider = NoProvider
    /\ wire = NoWire
    /\ exec_result = <<>>

HashAtRest ==
    /\ sb_chunks = <<>>
    /\ sb_len = NotComputed
    /\ sb_hash = NotComputed

NameAtRest ==
    /\ cbn_name = <<>>
    /\ cbn_result = NotComputed

TasksAtRest ==
    /\ task_pc = <<>>
    /\ task_bucket = <<>>
    /\ cache_log = <<>>

CallAtRest ==
    /\ call_args = <<>>
    /\ call_iter = <<>>
    /\ call_ret = NotComputed

FunctionsAtRest ==
    ExecuteAtRest /\ HashAtRest /\ NameAtRest /\ TasksAtRest /\ CallAtRest

NoChunk == [off |-> -1, n |-> 0]

Min(a, b) == IF a < b THEN a ELSE b

Range(s) == {s[i] : i \in 1..Len(s)}

(***************************************************************************)
(* Vec::swap_remove as select_all uses it: the element at idx is taken     *)
(* out and the last element takes its place.                               *)
(***************************************************************************)
swap_remove(v, idx) ==
    [i \in 1..(Len(v) - 1) |-> IF i = idx THEN v[Len(v)] ELSE v[i]]

(***************************************************************************)
(* The byte counts a read of a buffer of chunk_size bytes at position pos  *)
(* of a file of total bytes can return as Ok(n) with n > 0: a read may be  *)
(* short, and never goes past the end of the file or of the buffer.        *)
(***************************************************************************)
OkSizes(pos, chunk, total) == 1..Min(chunk, total - pos)

(***************************************************************************)
(* "Enqueue next chunk" of uring_example::run: one more read is pushed,    *)
(* at `offset`, when the source is not exhausted.                          *)
(***************************************************************************)
EnqueueTwo(remaining, off, chunk, total) ==
    IF off < total
    THEN [in_flight |-> remaining \o <<off, off + chunk>>, offset |-> off + 2 * chunk]
    ELSE [in_flight |-> remaining, offset |-> off]

EnqueueSkip(remaining, off, chunk, total) ==
    IF off < total
    THEN [in_flight |-> Append(remaining, off + chunk), offset |-> off + 2 * chunk]
    ELSE [in_flight |-> remaining, offset |-> off]

EnqueueNext(remaining, off, chunk, total) ==
    IF off < total
    THEN [in_flight |-> Append(remaining, off), offset |-> off + chunk]
    ELSE [in_flight |-> remaining, offset |-> off]

(***************************************************************************)
(* `while !in_flight.is_empty()`: where run goes after a loop body.        *)
(***************************************************************************)
LoopTest(v) == IF v = <<>> THEN "done" ELSE "select"

PipelineStart ==
    /\ driver \in {"tokio", "uring"}
    /\ upload \in BOOLEAN
    /\ (driver = "tokio") => upload
    /\ total_size \in 0..MaxTotal
    /\ chunk_size \in 0..MaxChunk
    /\ concurrency \in 0..MaxConcurrency
    /\ (driver = "tokio") => (concurrency = 0)
    /\ offset = 0
    /\ rd_pos = 0
    /\ fill_i = 0
    /\ in_flight = <<>>
    /\ dropped = <<>>
    /\ cur = NoChunk
    /\ pipe_pc = IF driver = "tokio" THEN "read" ELSE "fill"
    /\ started = <<>>
    /\ completed = <<>>
    /\ sent = <<>>
    /\ acked = <<>>

config == <<driver, upload, total_size, chunk_size, concurrency>>

(***************************************************************************)
(* tokio_example::run, one iteration up to the call of dummy_upload: the   *)
(* read returns n bytes, 0 at the end of the file (or into an empty        *)
(* buffer), and the chunk is handed to dummy_upload, which transmits it.   *)
(***************************************************************************)
TokioRead ==
    /\ UNCHANGED <<reqVars, fnVars>>
    /\ driver = "tokio"
    /\ pipe_pc = "read"
    /\ IF OkSizes(rd_pos, chunk_size, total_size) = {}
       THEN /\ pipe_pc' = "done"
            /\ UNCHANGED <<rd_pos, started, completed, sent, cur>>
       ELSE \E n \in OkSizes(rd_pos, chunk_size, total_size) :
            /\ rd_pos' = rd_pos + n
            /\ started' = Append(started, offset)
            /\ completed' = Append(completed, [off |-> offset, n |-> n])
            /\ cur' = [off |-> offset, n |-> n]
            /\ sent' = Append(sent, [off |-> offset, n |-> n])
            /\ pipe_pc' = "upload"
    /\ UNCHANGED <<config, offset, fill_i, in_flight, dropped, acked>>

(***************************************************************************)
(* `reader.read(&mut buf).await.unwrap()` on a read error: run panics.     *)
(***************************************************************************)
TokioReadError ==
    /\ UNCHANGED <<reqVars, fnVars>>
    /\ driver = "tokio"
    /\ pipe_pc = "read"
    /\ pipe_pc' = "panic"
    /\ UNCHANGED <<config, offset, rd_pos, fill_i, in_flight, dropped, cur,
                   started, completed, sent, acked>>

(***************************************************************************)
(* dummy_upload returns: the append succeeded, or it failed and the error  *)
(* was printed; either way run goes on with `offset += n`.                 *)
(***************************************************************************)
TokioUploadEnd ==
    /\ UNCHANGED <<reqVars, fnVars>>
    /\ driver = "tokio"
    /\ pipe_pc = "upload"
    /\ \E ok \in BOOLEAN :
         acked' = Append(acked, [off |-> cur.off, ok |-> ok])
    /\ offset' = offset + cur.n
    /\ cur' = NoChunk
    /\ pipe_pc' = "read"
    /\ UNCHANGED <<config, rd_pos, fill_i, in_flight, dropped, started,
                   completed, sent>>

(***************************************************************************)
(* uring_example::run, one iteration of the initial fill.                  *)
(***************************************************************************)
UringFill ==
    /\ UNCHANGED <<reqVars, fnVars>>
    /\ driver = "uring"
    /\ pipe_pc = "fill"
    /\ IF fill_i < concurrency /\ offset < total_size
       THEN /\ in_flight' = Append(in_flight, offset)
            /\ started' = Append(started, offset)
            /\ offset' = offset + chunk_size
            /\ fill_i' = fill_i + 1
            /\ UNCHANGED pipe_pc
       ELSE /\ pipe_pc' = LoopTest(in_flight)
            /\ UNCHANGED <<in_flight, started, offset, fill_i>>
    /\ UNCHANGED <<config, rd_pos, dropped, cur, completed, sent, acked>>

(***************************************************************************)
(* select_all returns the read at index idx with Ok(n), n > 0.  With the   *)
(* upload step in place the chunk goes to dummy_upload; otherwise the      *)
(* next chunk is enqueued at once.                                         *)
(***************************************************************************)
UringSelectOk ==
    /\ UNCHANGED <<reqVars, fnVars>>
    /\ driver = "uring"
    /\ pipe_pc = "select"
    /\ \E idx \in 1..Len(in_flight) :
       \E n \in OkSizes(in_flight[idx], chunk_size, total_size) :
         LET off == in_flight[idx]
             remaining == swap_remove(in_flight, idx)
             next == EnqueueNext(remaining, offset, chunk_size, total_size)
         IN  /\ completed' = Append(completed, [off |-> off, n |-> n])
             /\ IF upload
                THEN /\ cur' = [off |-> off, n |-> n]
                     /\ sent' = Append(sent, [off |-> off, n |-> n])
                     /\ in_flight' = remaining
                     /\ pipe_pc' = "upload"
                     /\ UNCHANGED <<offset, started>>
                ELSE /\ in_flight' = next.in_flight
                     /\ offset' = next.offset
                     /\ started' = started \o SubSeq(next.in_flight, Len(remaining) + 1, Len(next.in_flight))
                     /\ pipe_pc' = LoopTest(next.in_flight)
                     /\ UNCHANGED <<cur, sent>>
    /\ UNCHANGED <<config, rd_pos, fill_i, dropped, acked>>

(***************************************************************************)
(* select_all returns a read with Ok(0): `break`.  The reads still         *)
(* pending are dropped with `remaining`.                                   *)
(***************************************************************************)
UringSelectEof ==
    /\ UNCHANGED <<reqVars, fnVars>>
    /\ driver = "uring"
    /\ pipe_pc = "select"
    /\ \E idx \in 1..Len(in_flight) :
         /\ completed' = Append(completed, [off |-> in_flight[idx], n |-> 0])
         /\ dropped' = swap_remove(in_flight, idx)
    /\ in_flight' = <<>>
    /\ pipe_pc' = "eof"
    /\ UNCHANGED <<config, offset, rd_pos, fill_i, cur, started, sent, acked>>

(***************************************************************************)
(* select_all returns a read with Err(e): run panics.                      *)
(***************************************************************************)
UringSelectErr ==
    /\ UNCHANGED <<reqVars, fnVars>>
    /\ driver = "uring"
    /\ pipe_pc = "select"
    /\ \E idx \in 1..Len(in_flight) :
         dropped' = swap_remove(in_flight, idx)
    /\ in_flight' = <<>>
    /\ pipe_pc' = "panic"
    /\ UNCHANGED <<config, offset, rd_pos, fill_i, cur, started, completed,
                   sent, acked>>

(***************************************************************************)
(* dummy_upload returns in the windowed driver; then "Enqueue next chunk". *)
(***************************************************************************)
UringUploadEnd ==
    /\ UNCHANGED <<reqVars, fnVars>>
    /\ driver = "uring"
    /\ pipe_pc = "upload"
    /\ \E ok \in BOOLEAN :
         acked' = Append(acked, [off |-> cur.off, ok |-> ok])
    /\ LET next == EnqueueNext(in_flight, offset, chunk_size, total_size)
       IN  /\ in_flight' = next.in_flight
           /\ offset' = next.offset
           /\ started' = started \o SubSeq(next.in_flight, Len(in_flight) + 1, Len(next.in_flight))
           /\ pipe_pc' = LoopTest(next.in_flight)
    /\ cur' = NoChunk
    /\ UNCHANGED <<config, rd_pos, fill_i, dropped, completed, sent>>

(***************************************************************************)
(* The request path at rest: no request has been made.                     *)
(***************************************************************************)
NoBuilder == [kind |-> "none"]
NoDesc == [bucket |-> <<"none">>]
NoResult == [kind |-> "none"]
NoRegion == "none"

RequestsAtRest ==
    /\ now = 0
    /\ has_provider = TRUE
    /\ region_map = <<>>
    /\ map0 = <<>>
    /\ req_pc = "idle"
    /\ nreq = 0
    /\ builder = NoBuilder
    /\ desc = NoDesc
    /\ fate = <<>>
    /\ attempts = 0
    /\ validations = 0
    /\ result = NoResult
    /\ attempt_log = <<>>

InitPipeline == PipelineStart /\ RequestsAtRest /\ FunctionsAtRest

NextPipeline ==
    \/ TokioRead
    \/ TokioReadError
    \/ TokioUploadEnd
    \/ UringFill
    \/ UringSelectOk
    \/ UringSelectEof
    \/ UringSelectErr
    \/ UringUploadEnd

SpecPipeline == InitPipeline /\ [][NextPipeline]_vars

(***************************************************************************)
(* Fairness: the runtime keeps polling the task, every read that was       *)
(* started completes (with a byte count or an error) and every call of     *)
(* dummy_upload returns.                                                   *)
(***************************************************************************)
SpecPipelineFair == SpecPipeline /\ WF_vars(NextPipeline)

Terminated == pipe_pc \in {"done", "eof", "panic"}

(***************************************************************************)
(* The number of chunks of the source and the offsets i * chunk_size       *)
(* below the source size.                                                  *)
(***************************************************************************)
NumChunks ==
    IF chunk_size = 0
    THEN (IF total_size > 0 THEN 1 ELSE 0)
    ELSE (total_size + chunk_size - 1) \div chunk_size

ChunkOffsets == {i * chunk_size : i \in 0..(NumChunks - 1)}

Count(s, o) == Cardinality({i \in 1..Len(s) : s[i] = o})

CompletedOffsets == [i \in 1..Len(completed) |-> completed[i].off]

ReadOnceEach ==
    /\ \A o \in ChunkOffsets : Count(started, o) = 1 /\ Count(CompletedOffsets, o) = 1
    /\ Range(started) \subseteq ChunkOffsets
    /\ Range(CompletedOffsets) \subseteq ChunkOffsets

(***************************************************************************)
(* C1: in the windowed driver with concurrency K, the number of chunk      *)
(* reads in flight is at most K in every reachable state, for every        *)
(* source size and chunk size.                                             *)
(***************************************************************************)
C1_WindowBound ==
    (driver = "uring") => Len(in_flight) <= concurrency

C1_Witness ==
    /\ driver = "uring"
    /\ concurrency >= 2
    /\ Len(in_flight) = concurrency
    /\ Len(completed) >= 1

C3_NoTransmitAfterFailedAppend ==
    \A i \in 1..Len(acked) :
        (~acked[i].ok) =>
            \A j \in (i + 1)..Len(sent) : sent[j].off <= acked[i].off

(***************************************************************************)
(* C9: in the windowed driver over a source of more than K chunks, reads   *)
(* are started in offset order, the first K before any read completes,     *)
(* and afterwards one per completed read (never more), the window being    *)
(* refilled at every completion while the source is not exhausted.         *)
(***************************************************************************)
C9_WindowRefill ==
    (driver = "uring" /\ chunk_size > 0 /\ NumChunks > concurrency) =>
        /\ \A i \in 1..Len(started) : started[i] = (i - 1) * chunk_size
        /\ (Len(completed) > 0) => (Len(started) >= concurrency)
        /\ Len(started) <= concurrency + Len(completed)
        /\ (pipe_pc = "select") =>
               Len(started) = Min(NumChunks, concurrency + Len(completed))

C9_Witness ==
    /\ driver = "uring"
    /\ chunk_size > 0
    /\ concurrency >= 2
    /\ NumChunks > concurrency
    /\ Len(started) > concurrency
    /\ pipe_pc = "select"

(***************************************************************************)
(* C10 as stated: the windowed driver terminates, and at termination a     *)
(* read has been started and completed exactly once for every offset       *)
(* i * chunk_size below the source size.                                   *)
(***************************************************************************)
C10_ReadAllAtTermination ==
    (driver = "uring" /\ Terminated) => ReadOnceEach

(***************************************************************************)
(* C10 amended: once the source is exhausted no read is started; the       *)
(* windowed driver always terminates; and when it leaves its loop because  *)
(* no read is in flight, with K >= 1, a read has been started and          *)
(* completed exactly once for every offset i * chunk_size below the        *)
(* source size.  (It also terminates on a zero-byte read and on a read     *)
(* error, with reads left out.)                                            *)
(***************************************************************************)
C10_DrainAndTerminate ==
    /\ []((driver = "uring" /\ pipe_pc = "done" /\ concurrency >= 1) =>
             (ReadOnceEach /\ in_flight = <<>>))
    /\ [][(driver = "uring" /\ offset >= total_size) => (started' = started)]_vars
    /\ <>Terminated

C10_Witness ==
    /\ driver = "uring"
    /\ pipe_pc = "done"
    /\ chunk_size > 0
    /\ concurrency >= 1
    /\ NumChunks > concurrency
    /\ Len(completed) = NumChunks

(***************************************************************************)
(*                 The request path of the admin client                    *)
(***************************************************************************)

Lower == {"a", "b", "c", "d", "e", "f", "g", "h", "i", "j", "k", "l", "m",
          "n", "o", "p", "q", "r", "s", "t", "u", "v", "w", "x", "y", "z"}
Upper == {"A", "B", "C", "D", "E", "F", "G", "H", "I", "J", "K", "L", "M",
          "N", "O", "P", "Q", "R", "S", "T", "U", "V", "W", "X", "Y", "Z"}
Digit == {"0", "1", "2", "3", "4", "5", "6", "7", "8", "9"}
WhiteSpace == {" ", "\t", "\n", "\r"}

(***************************************************************************)
(* str::trim: the string without its leading and trailing white space.     *)
(* A string is a sequence of characters.                                   *)
(***************************************************************************)
trim(str) ==
    LET keep == {i \in 1..Len(str) : str[i] \notin WhiteSpace}
    IN  IF keep = {}
        THEN <<>>
        ELSE SubSeq(str,
                    CHOOSE i \in keep : \A j \in keep : i <= j,
                    CHOOSE i \in keep : \A j \in keep : j <= i)

(***************************************************************************)
(* str::contains for a pattern of two characters.                          *)
(***************************************************************************)
contains(str, a, b) ==
    \E i \in 1..(Len(str) - 1) : str[i] = a /\ str[i + 1] = b

(***************************************************************************)
(* IPV4_REGEX: four numbers 0..255 without leading zeros, between dots.    *)
(***************************************************************************)
Octet(part) ==
    \/ Len(part) = 1 /\ part[1] \in Digit
    \/ Len(part) = 2 /\ part[1] \in Digit \ {"0"} /\ part[2] \in Digit
    \/ Len(part) = 3 /\ part[1] = "1" /\ part[2] \in Digit /\ part[3] \in Digit
    \/ Len(part) = 3 /\ part[1] = "2" /\ part[2] \in {"0", "1", "2", "3", "4"}
                     /\ part[3] \in Digit
    \/ Len(part) = 3 /\ part[1] = "2" /\ part[2] = "5"
                     /\ part[3] \in {"0", "1", "2", "3", "4", "5"}

IPV4_REGEX(str) ==
    LET dots == {i \in 1..Len(str) : str[i] = "."}
    IN  /\ Cardinality(dots) = 3
        /\ LET d1 == CHOOSE i \in dots : \A j \in dots : i <= j
               d3 == CHOOSE i \in dots : \A j \in dots : j <= i
               d2 == CHOOSE i \in dots : i # d1 /\ i # d3
           IN  /\ Octet(SubSeq(str, 1, d1 - 1))
               /\ Octet(SubSeq(str, d1 + 1, d2 - 1))
               /\ Octet(SubSeq(str, d2 + 1, d3 - 1))
               /\ Octet(SubSeq(str, d3 + 1, Len(str)))

(***************************************************************************)
(* VALID_BUCKET_NAME_REGEX and VALID_BUCKET_NAME_STRICT_REGEX.             *)
(***************************************************************************)
VALID_BUCKET_NAME_REGEX(str) ==
    /\ Len(str) >= 3
    /\ Len(str) <= 63
    /\ str[1] \in Upper \cup Lower \cup Digit
    /\ str[Len(str)] \in Upper \cup Lower \cup Digit
    /\ \A i \in 2..(Len(str) - 1) :
           str[i] \in Upper \cup Lower \cup Digit \cup {".", "-", "_", ":"}

VALID_BUCKET_NAME_STRICT_REGEX(str) ==
    /\ Len(str) >= 3
    /\ Len(str) <= 63
    /\ str[1] \in Lower \cup Digit
    /\ str[Len(str)] \in Lower \cup Digit
    /\ \A i \in 2..(Len(str) - 1) : str[i] \in Lower \cup Digit \cup {".", "-"}

(***************************************************************************)
(* check_bucket_name: "Ok" or the error it returns.                        *)
(***************************************************************************)
check_bucket_name_untrimmed(name, strict) ==
    IF Len(name) < 3 \/ Len(name) > 63 THEN "InvalidBucketName"
    ELSE IF IPV4_REGEX(name) THEN "InvalidBucketName"
    ELSE IF \/ contains(name, ".", ".")
            \/ contains(name, ".", "-")
            \/ contains(name, "-", ".") THEN "InvalidBucketName"
    ELSE IF strict /\ VALID_BUCKET_NAME_STRICT_REGEX(name) THEN "Ok"
    ELSE IF ~strict /\ VALID_BUCKET_NAME_REGEX(name) THEN "Ok"
    ELSE "InvalidBucketName"

check_bucket_name(name, strict) ==
    LET bucket_name == trim(name)
        bucket_name_len == Len(bucket_name)
    IN  IF bucket_name_len = 0 THEN "InvalidBucketName"
        ELSE IF bucket_name_len < 3 THEN "InvalidBucketName"
        ELSE IF bucket_name_len > 63 THEN "InvalidBucketName"
        ELSE IF IPV4_REGEX(bucket_name) THEN "InvalidBucketName"
        ELSE IF \/ contains(bucket_name, ".", ".")
                \/ contains(bucket_name, ".", "-")
                \/ contains(bucket_name, "-", ".") THEN "InvalidBucketName"
        ELSE IF strict
             THEN (IF VALID_BUCKET_NAME_STRICT_REGEX(bucket_name)
                   THEN "Ok" ELSE "InvalidBucketName")
             ELSE (IF VALID_BUCKET_NAME_REGEX(bucket_name)
                   THEN "Ok" ELSE "InvalidBucketName")

(***************************************************************************)
(* The bucket and object names the callers of the model use.               *)
(***************************************************************************)
BucketNames ==
    { <<"a", "b", "c">>,
      <<"a", ".", "b">>,
      <<" ", "a", "b", "c">>,
      <<>>,
      <<"a", "b">>,
      <<"A", "b", "c">>,
      <<"a", ".", ".", "b">>,
      <<"1", ".", "1", ".", "1", ".", "1">> }

ObjectNames == { <<>>, <<"k">> }

None == <<"none">>

CacheBuckets == { <<"a", "b", "c">>, <<"a", ".", "b">> }

Regions == {"us-east-1"}

(***************************************************************************)
(* ListRemoteTargets::to_madmin_request: the bucket name is validated,     *)
(* then the request is built, with the bucket as a query parameter (the    *)
(* request's own bucket stays None).                                       *)
(***************************************************************************)
to_madmin_request_unchecked(b) ==
    [err |-> "Ok", desc |-> [bucket |-> None]]

to_madmin_request(b) ==
    IF check_bucket_name(b.bucket, TRUE) # "Ok"
    THEN [err |-> check_bucket_name(b.bucket, TRUE), desc |-> NoDesc]
    ELSE [err |-> "Ok", desc |-> [bucket |-> None]]

(***************************************************************************)
(* DownloadObject::to_s3request, up to the point the request is built.     *)
(***************************************************************************)
to_s3request(b) ==
    IF check_bucket_name(b.bucket, TRUE) # "Ok"
    THEN check_bucket_name(b.bucket, TRUE)
    ELSE IF b.object = <<>> THEN "InvalidObjectName"
    ELSE IF ~b.client THEN "NoClientProvided"
    ELSE IF b.ssec_insecure THEN "SseTlsRequired"
    ELSE "Ok"

(***************************************************************************)
(* to_amz_date: the time to the second.                                    *)
(***************************************************************************)
to_amz_date(time) == time \div TicksPerSecond

(***************************************************************************)
(* MadminRequest::execute, the headers of an attempt that carry a time:    *)
(* `date` is what utc_now() returned inside the attempt; the x-amz-date    *)
(* header is to_amz_date(date) and sign_v4_s3 gets the same date.          *)
(***************************************************************************)
AttemptDatesReadTwice(date, provider) ==
    [x_amz_date |-> to_amz_date(date),
     signed |-> provider,
     sign_date |-> IF provider THEN date + 1 ELSE -1]

AttemptDates(date, provider) ==
    [x_amz_date |-> to_amz_date(date),
     signed |-> provider,
     sign_date |-> IF provider THEN date ELSE -1]

(***************************************************************************)
(* What the network and the server can answer to an attempt.               *)
(***************************************************************************)
ErrorCodes == {"NoSuchBucket", "RetryHead", "AccessDenied"}
Outcomes == {"transport", "success", "body_fail", "unparsed"} \cup ErrorCodes
Fates == {f \in [{1, 2} -> Outcomes] : f[2] \in {"success", "transport"}}

(***************************************************************************)
(* get_error_response: the error built from a non-2xx response.            *)
(***************************************************************************)
get_error_response(outcome) ==
    IF outcome \in ErrorCodes
    THEN [kind |-> "S3Error", code |-> outcome]
    ELSE [kind |-> "XmlError", code |-> ""]

(***************************************************************************)
(* MadminRequest::execute, the end: on a NoSuchBucket or RetryHead error   *)
(* the bucket of the request is removed from the region map.               *)
(***************************************************************************)
ForgetNever(map, e, bucket_name) == map

ForgetOnAnyError(map, e, bucket_name) ==
    IF e.kind = "S3Error" /\ bucket_name # None
    THEN [b \in DOMAIN map |-> IF b = bucket_name THEN NoRegion ELSE map[b]]
    ELSE map

ForgetRegion(map, e, bucket_name) ==
    IF /\ e.kind = "S3Error"
       /\ e.code \in {"NoSuchBucket", "RetryHead"}
       /\ bucket_name # None
    THEN [b \in DOMAIN map |-> IF b = bucket_name THEN NoRegion ELSE map[b]]
    ELSE map

PipelineAtRest ==
    /\ driver = "tokio"
    /\ upload = TRUE
    /\ total_size = 0
    /\ chunk_size = 0
    /\ concurrency = 0
    /\ offset = 0
    /\ rd_pos = 0
    /\ fill_i = 0
    /\ in_flight = <<>>
    /\ dropped = <<>>
    /\ cur = NoChunk
    /\ pipe_pc = "done"
    /\ started = <<>>
    /\ completed = <<>>
    /\ sent = <<>>
    /\ acked = <<>>

InitDispatch ==
    /\ PipelineAtRest
    /\ FunctionsAtRest
    /\ now = 0
    /\ has_provider \in BOOLEAN
    /\ region_map \in [CacheBuckets -> Regions \cup {NoRegion}]
    /\ map0 = region_map
    /\ req_pc = "idle"
    /\ nreq = 0
    /\ builder = NoBuilder
    /\ desc = NoDesc
    /\ fate = <<>>
    /\ attempts = 0
    /\ validations = 0
    /\ result = NoResult
    /\ attempt_log = <<>>

CanBegin == req_pc = "idle" /\ nreq < MaxRequests

(***************************************************************************)
(* MadminApi::send of a ListRemoteTargets, up to the call of execute:      *)
(* `self.to_madmin_request()?`.                                            *)
(***************************************************************************)
SendListRemoteTargets ==
    /\ UNCHANGED <<pipeVars, fnVars>>
    /\ CanBegin
    /\ \E name \in BucketNames :
         LET b == [kind |-> "ListRemoteTargets", bucket |-> name]
             r == to_madmin_request(b)
         IN  /\ builder' = b
             /\ validations' = 1
             /\ IF r.err # "Ok"
                THEN /\ result' = [kind |-> r.err]
                     /\ req_pc' = "returned"
                     /\ desc' = NoDesc
                     /\ fate' = <<>>
                ELSE /\ result' = NoResult
                     /\ req_pc' = "built"
                     /\ desc' = r.desc
                     /\ fate' \in Fates
    /\ nreq' = nreq + 1
    /\ attempts' = 0
    /\ map0' = region_map
    /\ UNCHANGED <<now, has_provider, region_map, attempt_log>>

(***************************************************************************)
(* A caller builds a MadminRequest itself, MadminRequest::new(..)          *)
(* .bucket(..), and is about to call execute.  Nothing validates.          *)
(***************************************************************************)
NewMadminRequest ==
    /\ UNCHANGED <<pipeVars, fnVars>>
    /\ CanBegin
    /\ \E bkt \in CacheBuckets \cup {None}, f \in Fates :
         /\ builder' = [kind |-> "MadminRequest", bucket |-> bkt]
         /\ desc' = [bucket |-> bkt]
         /\ fate' = f
    /\ validations' = 0
    /\ result' = NoResult
    /\ req_pc' = "built"
    /\ nreq' = nreq + 1
    /\ attempts' = 0
    /\ map0' = region_map
    /\ UNCHANGED <<now, has_provider, region_map, attempt_log>>

(***************************************************************************)
(* DownloadObject::to_s3request: the request is validated and built.       *)
(***************************************************************************)
BuildDownloadObject ==
    /\ UNCHANGED <<pipeVars, fnVars>>
    /\ CanBegin
    /\ \E name \in BucketNames, obj \in ObjectNames, cl \in BOOLEAN, ss \in BOOLEAN :
         LET b == [kind |-> "DownloadObject", bucket |-> name, object |-> obj,
                   client |-> cl, ssec_insecure |-> ss]
         IN  /\ builder' = b
             /\ result' = [kind |-> IF to_s3request(b) = "Ok" THEN "Built"
                                    ELSE to_s3request(b)]
    /\ validations' = 1
    /\ desc' = NoDesc
    /\ fate' = <<>>
    /\ req_pc' = "returned"
    /\ nreq' = nreq + 1
    /\ attempts' = 0
    /\ map0' = region_map
    /\ UNCHANGED <<now, has_provider, region_map, attempt_log>>

(***************************************************************************)
(* MadminRequest::execute up to `req.send()`: the headers are assembled,   *)
(* the clock is read (it shows the time of the last reading or a later     *)
(* one), the request is signed and transmitted.                            *)
(***************************************************************************)
ExecuteTransmit ==
    /\ UNCHANGED <<pipeVars, fnVars>>
    /\ req_pc = "built"
    /\ now' \in now..MaxClock
    /\ attempts' = attempts + 1
    /\ attempt_log' = Append(attempt_log,
           [clock |-> now', dates |-> AttemptDates(now', has_provider)])
    /\ req_pc' = "sent"
    /\ UNCHANGED <<has_provider, region_map, map0, nreq, builder, desc,
                   fate, validations, result>>

(***************************************************************************)
(* MadminRequest::execute from the answer on, and from_madmin_response:    *)
(* a transport failure and a success are returned as they are; a non-2xx   *)
(* response is read (which can fail), turned into an error, the region     *)
(* map is updated and the error is returned.                               *)
(***************************************************************************)
ExecuteReturnRetrying ==
    /\ UNCHANGED <<pipeVars, fnVars>>
    /\ req_pc = "sent"
    /\ IF fate[attempts] = "success"
       THEN result' = [kind |-> "Ok"] /\ req_pc' = "returned"
       ELSE IF attempts < 2
       THEN result' = result /\ req_pc' = "built"
       ELSE result' = [kind |-> "Transport"] /\ req_pc' = "returned"
    /\ UNCHANGED <<now, has_provider, region_map, map0, nreq, builder, desc,
                   fate, attempts, validations, attempt_log>>

ExecuteReturn ==
    /\ UNCHANGED <<pipeVars, fnVars>>
    /\ req_pc = "sent"
    /\ LET outcome == fate[attempts]
           e == get_error_response(outcome)
       IN  IF outcome = "success"
           THEN /\ result' = [kind |-> "Ok"]
                /\ UNCHANGED region_map
           ELSE IF outcome \in {"transport", "body_fail"}
           THEN /\ result' = [kind |-> "Transport"]
                /\ UNCHANGED region_map
           ELSE /\ result' = e
                /\ region_map' = ForgetRegion(region_map, e, desc.bucket)
    /\ req_pc' = "returned"
    /\ UNCHANGED <<now, has_provider, map0, nreq, builder, desc, fate,
                   attempts, validations, attempt_log>>

(***************************************************************************)
(* send has returned: the request, consumed by from_madmin_response, and   *)
(* the result are dropped by the caller.                                   *)
(***************************************************************************)
DropRequest ==
    /\ UNCHANGED <<pipeVars, fnVars>>
    /\ req_pc = "returned"
    /\ req_pc' = "idle"
    /\ builder' = NoBuilder
    /\ desc' = NoDesc
    /\ fate' = <<>>
    /\ attempts' = 0
    /\ validations' = 0
    /\ result' = NoResult
    /\ map0' = region_map
    /\ UNCHANGED <<now, has_provider, region_map, nreq, attempt_log>>

NextDispatch ==
    \/ SendListRemoteTargets
    \/ NewMadminRequest
    \/ BuildDownloadObject
    \/ ExecuteTransmit
    \/ ExecuteReturn
    \/ DropRequest

SpecDispatch == InitDispatch /\ [][NextDispatch]_vars

(***************************************************************************)
(* C4: a logical request whose first response is classified into one of    *)
(* the two retryable code families (NoSuchBucket, RetryHead) makes exactly *)
(* one more transmit attempt: it returns after two attempts.               *)
(***************************************************************************)
C4_RetriesExactlyOnce ==
    (req_pc = "returned" /\ attempts >= 1 /\ fate[1] \in {"NoSuchBucket", "RetryHead"})
        => attempts = 2

(***************************************************************************)
(* C5: when a request on bucket B has returned a stale-bucket-location     *)
(* error (NoSuchBucket), the region map holds no region for B, so a        *)
(* resolution of B does not return the region cached before.               *)
(***************************************************************************)
C5_StaleLocationForgets ==
    (/\ req_pc = "returned"
     /\ result = [kind |-> "S3Error", code |-> "NoSuchBucket"]
     /\ desc.bucket # None)
        => region_map[desc.bucket] = NoRegion

C5_Witness ==
    /\ req_pc = "returned"
    /\ result = [kind |-> "S3Error", code |-> "NoSuchBucket"]
    /\ desc.bucket # None
    /\ map0[desc.bucket] # NoRegion
    /\ region_map[desc.bucket] = NoRegion

(***************************************************************************)
(* C6: a request whose first attempt fails at transport level and whose    *)
(* second attempt would succeed returns success.                           *)
(***************************************************************************)
C6_TransportFailureRetried ==
    (/\ req_pc = "returned"
     /\ attempts >= 1
     /\ fate[1] = "transport"
     /\ fate[2] = "success")
        => result = [kind |-> "Ok"]

(***************************************************************************)
(* C7: a request sent through a builder is validated exactly once, before  *)
(* anything is transmitted; when the validation fails the request returns  *)
(* InvalidBucketName (or InvalidObjectName) with no transmit attempt and   *)
(* the region map as it was.                                               *)
(***************************************************************************)
C7_ValidatedOnceBeforeNetwork ==
    /\ validations <= 1
    /\ (builder.kind \in {"ListRemoteTargets", "DownloadObject"}) =>
           /\ validations = 1
           /\ (attempts > 0) => (check_bucket_name(builder.bucket, TRUE) = "Ok")
           /\ (check_bucket_name(builder.bucket, TRUE) # "Ok") =>
                  /\ req_pc = "returned"
                  /\ result = [kind |-> "InvalidBucketName"]
                  /\ attempts = 0
                  /\ region_map = map0
    /\ (/\ builder.kind = "DownloadObject"
        /\ check_bucket_name(builder.bucket, TRUE) = "Ok"
        /\ builder.object = <<>>) =>
           /\ result = [kind |-> "InvalidObjectName"]
           /\ attempts = 0
           /\ region_map = map0

C7_Witness ==
    /\ builder.kind = "ListRemoteTargets"
    /\ builder.bucket = <<"a", ".", ".", "b">>
    /\ req_pc = "returned"
    /\ result = [kind |-> "InvalidBucketName"]
    /\ attempts = 0
    /\ \E b \in CacheBuckets : region_map[b] # NoRegion

(***************************************************************************)
(* C8: every attempt takes its time from the clock inside the attempt:     *)
(* the x-amz-date header and the date given to the signer are both the     *)
(* time read in that attempt, so an attempt made at a later clock reading  *)
(* does not carry the date of an earlier attempt.                          *)
(***************************************************************************)
C8_FreshSigningDate ==
    /\ \A i \in 1..Len(attempt_log) :
         LET a == attempt_log[i]
         IN  /\ a.dates.x_amz_date = to_amz_date(a.clock)
             /\ a.dates.signed = has_provider
             /\ a.dates.signed => (a.dates.sign_date = a.clock)
             /\ a.dates.signed => (to_amz_date(a.dates.sign_date) = a.dates.x_amz_date)
    /\ \A i, j \in 1..Len(attempt_log) :
         (i < j /\ attempt_log[i].clock < attempt_log[j].clock /\ has_provider) =>
             attempt_log[j].dates.sign_date # attempt_log[i].dates.sign_date

C8_Witness ==
    /\ Len(attempt_log) = 2
    /\ has_provider
    /\ attempt_log[1].clock < attempt_log[2].clock
    /\ attempt_log[2].dates.sign_date = attempt_log[2].clock

(***************************************************************************)
(* The windowed driver left its loop early: on a zero-byte read (break)    *)
(* or on a read error (panic).                                             *)
(***************************************************************************)
Aborted == driver = "uring" /\ pipe_pc \in {"eof", "panic"}

(***************************************************************************)
(* C11: when the windowed driver is aborted, the reads that were in flight *)
(* run to completion (their results discarded): none of them is left       *)
(* pending or dropped before it has completed.                             *)
(***************************************************************************)
C11_InFlightRunToCompletion ==
    Aborted => (dropped = <<>> /\ in_flight = <<>>)

(***************************************************************************)
(* The content hash (s3/utils.rs: EMPTY_SHA256, sha256_hash,               *)
(* sha256_hash_sb).  A byte is a number in 0..255, a chunk (Bytes) a       *)
(* sequence of bytes, a SegmentedBytes the sequence of its chunks.  The    *)
(* digest is computed: SHA-256 as Sha256::new / update / finalize compute  *)
(* it for a message shorter than one block, and encode_hex of the result.  *)
(***************************************************************************)
(* SHA-256 (FIPS 180-4), as computed by Sha256::finalize.
   A 32-bit word is a pair <<hi, lo>> of 16-bit halves. *)
XorNibble ==
    <<
       <<0, 1, 2, 3, 4, 5, 6, 7, 8, 9, 10, 11, 12, 13, 14, 15>>,
       <<1, 0, 3, 2, 5, 4, 7, 6, 9, 8, 11, 10, 13, 12, 15, 14>>,
       <<2, 3, 0, 1, 6, 7, 4, 5, 10, 11, 8, 9, 14, 15, 12, 13>>,
       <<3, 2, 1, 0, 7, 6, 5, 4, 11, 10, 9, 8, 15, 14, 13, 12>>,
       <<4, 5, 6, 7, 0, 1, 2, 3, 12, 13, 14, 15, 8, 9, 10, 11>>,
       <<5, 4, 7, 6, 1, 0, 3, 2, 13, 12, 15, 14, 9, 8, 11, 10>>,
       <<6, 7, 4, 5, 2, 3, 0, 1, 14, 15, 12, 13, 10, 11, 8, 9>>,
       <<7, 6, 5, 4, 3, 2, 1, 0, 15, 14, 13, 12, 11, 10, 9, 8>>,
       <<8, 9, 10, 11, 12, 13, 14, 15, 0, 1, 2, 3, 4, 5, 6, 7>>,
       <<9, 8, 11, 10, 13, 12, 15, 14, 1, 0, 3, 2, 5, 4, 7, 6>>,
       <<10, 11, 8, 9, 14, 15, 12, 13, 2, 3, 0, 1, 6, 7, 4, 5>>,
       <<11, 10, 9, 8, 15, 14, 13, 12, 3, 2, 1, 0, 7, 6, 5, 4>>,
       <<12, 13, 14, 15, 8, 9, 10, 11, 4, 5, 6, 7, 0, 1, 2, 3>>,
       <<13, 12, 15, 14, 9, 8, 11, 10, 5, 4, 7, 6, 1, 0, 3, 2>>,
       <<14, 15, 12, 13, 10, 11, 8, 9, 6, 7, 4, 5, 2, 3, 0, 1>>,
       <<15, 14, 13, 12, 11, 10, 9, 8, 7, 6, 5, 4, 3, 2, 1, 0>>
    >>

AndNibble ==
    <<
       <<0, 0, 0, 0, 0, 0, 0, 0, 0, 0, 0, 0, 0, 0, 0, 0>>,
       <<0, 1, 0, 1, 0, 1, 0, 1, 0, 1, 0, 1, 0, 1, 0, 1>>,
       <<0, 0, 2, 2, 0, 0, 2, 2, 0, 0, 2, 2, 0, 0, 2, 2>>,
       <<0, 1, 2, 3, 0, 1, 2, 3, 0, 1, 2, 3, 0, 1, 2, 3>>,
       <<0, 0, 0, 0, 4, 4, 4, 4, 0, 0, 0, 0, 4, 4, 4, 4>>,
       <<0, 1, 0, 1, 4, 5, 4, 5, 0, 1, 0, 1, 4, 5, 4, 5>>,
       <<0, 0, 2, 2, 4, 4, 6, 6, 0, 0, 2, 2, 4, 4, 6, 6>>,
       <<0, 1, 2, 3, 4, 5, 6, 7, 0, 1, 2, 3, 4, 5, 6, 7>>,
       <<0, 0, 0, 0, 0, 0, 0, 0, 8, 8, 8, 8, 8, 8, 8, 8>>,
       <<0, 1, 0, 1, 0, 1, 0, 1, 8, 9, 8, 9, 8, 9, 8, 9>>,
       <<0, 0, 2, 2, 0, 0, 2, 2, 8, 8, 10, 10, 8, 8, 10, 10>>,
       <<0, 1, 2, 3, 0, 1, 2, 3, 8, 9, 10, 11, 8, 9, 10, 11>>,
       <<0, 0, 0, 0, 4, 4, 4, 4, 8, 8, 8, 8, 12, 12, 12, 12>>,
       <<0, 1, 0, 1, 4, 5, 4, 5, 8, 9, 8, 9, 12, 13, 12, 13>>,
       <<0, 0, 2, 2, 4, 4, 6, 6, 8, 8, 10, 10, 12, 12, 14, 14>>,
       <<0, 1, 2, 3, 4, 5, 6, 7, 8, 9, 10, 11, 12, 13, 14, 15>>
    >>

(* A bitwise operation on 16-bit values, nibble by nibble through its table. *)
Bitwise16(tbl, a, b) ==
      tbl[(a \div 4096) + 1][(b \div 4096) + 1] * 4096
    + tbl[((a \div 256) % 16) + 1][((b \div 256) % 16) + 1] * 256
    + tbl[((a \div 16) % 16) + 1][((b \div 16) % 16) + 1] * 16
    + tbl[(a % 16) + 1][(b % 16) + 1]

Xor16(a, b) == Bitwise16(XorNibble, a, b)

And16(a, b) == Bitwise16(AndNibble, a, b)

Not16(a) == 65535 - a

Xor32(x, y) == <<Xor16(x[1], y[1]), Xor16(x[2], y[2])>>

And32(x, y) == <<And16(x[1], y[1]), And16(x[2], y[2])>>

Not32(x) == <<Not16(x[1]), Not16(x[2])>>

Add32(x, y) ==
    LET lo == x[2] + y[2]
        hi == x[1] + y[1] + (lo \div 65536)
    IN  <<hi % 65536, lo % 65536>>

RotR(x, n) ==
    LET hi == IF n < 16 THEN x[1] ELSE x[2]
        lo == IF n < 16 THEN x[2] ELSE x[1]
        k  == n % 16
    IN  <<(hi \div 2^k) + (lo % 2^k) * 2^(16 - k),
          (lo \div 2^k) + (hi % 2^k) * 2^(16 - k)>>

ShR(x, n) ==
    IF n < 16
    THEN <<x[1] \div 2^n, (x[2] \div 2^n) + (x[1] % 2^n) * 2^(16 - n)>>
    ELSE <<0, x[1] \div 2^(n - 16)>>

Ch(x, y, z) == Xor32(And32(x, y), And32(Not32(x), z))

Maj(x, y, z) == Xor32(Xor32(And32(x, y), And32(x, z)), And32(y, z))

BigSigma0(x) == Xor32(Xor32(RotR(x, 2), RotR(x, 13)), RotR(x, 22))

BigSigma1(x) == Xor32(Xor32(RotR(x, 6), RotR(x, 11)), RotR(x, 25))

SmallSigma0(x) == Xor32(Xor32(RotR(x, 7), RotR(x, 18)), ShR(x, 3))

SmallSigma1(x) == Xor32(Xor32(RotR(x, 17), RotR(x, 19)), ShR(x, 10))

RoundConstants ==
    <<
       <<17034, 12184>>, <<28983, 17553>>, <<46528, 64463>>, <<59829, 56229>>,
       <<14678, 49755>>, <<23025, 4593>>, <<37439, 33444>>, <<43804, 24277>>,
       <<55303, 43672>>, <<4739, 23297>>, <<9265, 34238>>, <<21772, 32195>>,
       <<29374, 23924>>, <<32990, 45566>>, <<39900, 1703>>, <<49563, 61812>>,
       <<58523, 27073>>, <<61374, 18310>>, <<4033, 40390>>, <<9228, 41420>>,
       <<11753, 11375>>, <<19060, 33962>>, <<23728, 43484>>, <<30457, 35034>>,
       <<38974, 20818>>, <<43057, 50797>>, <<45059, 10184>>, <<48985, 32711>>,
       <<50912, 3059>>, <<54695, 37191>>, <<1738, 25425>>, <<5161, 10599>>,
       <<10167, 2693>>, <<11803, 8504>>, <<19756, 28156>>, <<21304, 3347>>,
       <<25866, 29524>>, <<30314, 2747>>, <<33218, 51502>>, <<37490, 11397>>,
       <<41663, 59553>>, <<43034, 26187>>, <<49739, 35696>>, <<51052, 20899>>,
       <<53650, 59417>>, <<54937, 1572>>, <<62478, 13701>>, <<4202, 41072>>,
       <<6564, 49430>>, <<7735, 27656>>, <<10056, 30540>>, <<13488, 48309>>,
       <<14620, 3251>>, <<20184, 43594>>, <<23452, 51791>>, <<26670, 28659>>,
       <<29839, 33518>>, <<30885, 25455>>, <<33992, 30740>>, <<36039, 520>>,
       <<37054, 65530>>, <<42064, 27883>>, <<48889, 41975>>, <<50801, 30962>>
    >>

InitialHash ==
    <<
       <<27145, 58983>>, <<47975, 44677>>, <<15470, 62322>>, <<42319, 62778>>,
       <<20750, 21119>>, <<39685, 26764>>, <<8067, 55723>>, <<23520, 52505>>
    >>

(* The padded single block of a message shorter than 56 bytes: the bytes, 0x80,
   zeros, and the bit length in the last two bytes. *)
PadBlock(msg) ==
    [i \in 1..64 |->
        IF i <= Len(msg) THEN msg[i]
        ELSE IF i = Len(msg) + 1 THEN 128
        ELSE IF i = 63 THEN (8 * Len(msg)) \div 256
        ELSE IF i = 64 THEN (8 * Len(msg)) % 256
        ELSE 0]

BlockWords(blk) ==
    [t \in 1..16 |-> <<blk[4 * t - 3] * 256 + blk[4 * t - 2],
                       blk[4 * t - 1] * 256 + blk[4 * t]>>]

RECURSIVE Schedule(_)
Schedule(w) ==
    IF Len(w) = 64 THEN w
    ELSE LET t  == Len(w) + 1
             wt == Add32(Add32(SmallSigma1(w[t - 2]), w[t - 7]),
                         Add32(SmallSigma0(w[t - 15]), w[t - 16]))
         IN  IF wt \in Seq(Nat) THEN Schedule(Append(w, wt)) ELSE <<>>

RECURSIVE Rounds(_, _, _)
Rounds(s, w, t) ==
    IF t > 64 THEN s
    ELSE LET T1 == Add32(Add32(Add32(s[8], BigSigma1(s[5])), Ch(s[5], s[6], s[7])),
                         Add32(RoundConstants[t], w[t]))
             T2 == Add32(BigSigma0(s[1]), Maj(s[1], s[2], s[3]))
             ns == <<Add32(T1, T2), s[1], s[2], s[3],
                     Add32(s[4], T1), s[5], s[6], s[7]>>
         IN  IF ns \in Seq(Seq(Nat)) THEN Rounds(ns, w, t + 1) ELSE <<>>

Compress(h, blk) ==
    LET w == Schedule([t \in 1..16 |-> BlockWords(blk)[t]])
        s == Rounds(h, w, 1)
    IN  <<Add32(h[1], s[1]), Add32(h[2], s[2]), Add32(h[3], s[3]), Add32(h[4], s[4]),
          Add32(h[5], s[5]), Add32(h[6], s[6]), Add32(h[7], s[7]), Add32(h[8], s[8])>>

HexDigits ==
    <<"0", "1", "2", "3", "4", "5", "6", "7", "8", "9", "a", "b", "c", "d", "e", "f">>

Hex16(v) ==
    <<HexDigits[(v \div 4096) + 1], HexDigits[((v \div 256) % 16) + 1],
      HexDigits[((v \div 16) % 16) + 1], HexDigits[(v % 16) + 1]>>

RECURSIVE encode_hex(_)
encode_hex(words) ==
    IF words = <<>> THEN <<>>
    ELSE Hex16(words[1][1]) \o Hex16(words[1][2]) \o encode_hex(Tail(words))

(* The streaming hasher: the bytes absorbed so far (fewer than a block). *)
Sha256_new == <<>>

Sha256_update(hasher, data) == hasher \o data

Sha256_finalize(hasher) == Compress(InitialHash, PadBlock(hasher))

sha256_hash(data) == encode_hex(Sha256_finalize(Sha256_update(Sha256_new, data)))

HashChunksLastOnly(hasher, chunks) ==
    IF chunks = <<>> THEN hasher
    ELSE Sha256_update(Sha256_new, chunks[Len(chunks)])

RECURSIVE HashChunks(_, _)
HashChunks(hasher, chunks) ==
    IF chunks = <<>> THEN hasher
    ELSE HashChunks(Sha256_update(hasher, chunks[1]), Tail(chunks))

sha256_hash_sb(sb) == encode_hex(Sha256_finalize(HashChunks(Sha256_new, sb)))

EMPTY_SHA256_truncated ==
    <<"e", "3", "b", "0", "c", "4", "4", "2", "9", "8", "f", "c", "1", "c", "1", "4", "9", "a", "f", "b", "f", "4", "c", "8", "9", "9", "6", "f", "b", "9", "2", "4", "2", "7", "a", "e", "4", "1", "e", "4", "6", "4", "9", "b", "9", "3", "4", "c", "a", "4", "9", "5", "9", "9", "1", "b", "7", "8", "5", "2", "b", "8", "5">>

EMPTY_SHA256 ==
    <<"e", "3", "b", "0", "c", "4", "4", "2", "9", "8", "f", "c", "1", "c", "1", "4", "9", "a", "f", "b", "f", "4", "c", "8", "9", "9", "6", "f", "b", "9", "2", "4", "2", "7", "a", "e", "4", "1", "e", "4", "6", "4", "9", "b", "9", "3", "4", "c", "a", "4", "9", "5", "9", "9", "1", "b", "7", "8", "5", "2", "b", "8", "5", "5">>

RECURSIVE Concat(_)
Concat(chunks) ==
    IF chunks = <<>> THEN <<>> ELSE chunks[1] \o Concat(Tail(chunks))

(* SegmentedBytes::len: the total number of bytes of the chunks. *)
RECURSIVE SegmentedBytes_len(_)
SegmentedBytes_len(chunks) ==
    IF chunks = <<>> THEN 0 ELSE Len(chunks[1]) + SegmentedBytes_len(Tail(chunks))

(***************************************************************************)
(* MadminRequest::execute up to the transmission (madmin/types.rs 72-169): *)
(* the headers of the attempt are assembled in a copy of the descriptor's  *)
(* headers and copied to the HTTP request, and the body is streamed for    *)
(* PUT and POST.  An Option is a sequence of at most one element; a header *)
(* map (Multimap) is the sequence of its <<key, value>> entries.           *)
(***************************************************************************)
Some(v) == <<v>>

Methods == {"GET", "PUT", "POST", "DELETE"}

(* Multimap::add and Multimap::contains_key *)
add(headers, key, value) == Append(headers, <<key, value>>)

contains_key(headers, key) == \E i \in 1..Len(headers) : headers[i][1] = key

HeaderValues(headers, key) ==
    LET IsKey(kv) == kv[1] = key
        kvs       == SelectSeq(headers, IsKey)
    IN  [i \in 1..Len(kvs) |-> kvs[i][2]]

(* lines 88-93: Content-Type and Content-Length, for PUT and POST *)
ContentHeadersChunkCount(method, headers, body) ==
    IF method \in {"PUT", "POST"}
    THEN add(headers, "Content-Length", IF body = <<>> THEN 0 ELSE Len(body[1]))
    ELSE headers

ContentHeaders(method, headers, body) ==
    IF method \in {"PUT", "POST"}
    THEN LET typed == IF ~contains_key(headers, "Content-Type")
                      THEN add(headers, "Content-Type", "application/octet-stream")
                      ELSE headers
             len   == IF body = <<>> THEN 0 ELSE SegmentedBytes_len(body[1])
         IN  add(typed, "Content-Length", len)
    ELSE headers

(* lines 87-101: the value of `sha256` *)
ContentSha256AnyMethod(method, body) ==
    IF body = <<>> THEN EMPTY_SHA256 ELSE sha256_hash_sb(body[1])

ContentSha256(method, body) ==
    IF method \in {"PUT", "POST"}
    THEN IF body = <<>> THEN EMPTY_SHA256 ELSE sha256_hash_sb(body[1])
    ELSE EMPTY_SHA256

(* sign_v4_s3: the signing step adds the Authorization header, computed
   from the headers, the content hash and the date it is given. *)
sign_v4_s3(headers, sha256, date) ==
    add(headers, "Authorization", [content_sha256 |-> sha256, date |-> date])

(* lines 107-123: the request is signed when the client has a provider *)
SignHeadersAlways(headers, prov, sha256, date) ==
    sign_v4_s3(headers, sha256, date)

SignHeaders(headers, prov, sha256, date) ==
    IF prov # NoProvider
    THEN LET creds == prov
             tokened == IF creds.session_token # <<>>
                        THEN add(headers, "X-Amz-Security-Token",
                                 creds.session_token[1])
                        ELSE headers
         IN  sign_v4_s3(tokened, sha256, date)
    ELSE headers

(* lines 84-124: the headers of the attempt *)
ExecuteHeaders(method, headers, body, prov, date) ==
    LET hosted  == add(headers, "Host", "host")
        content == ContentHeaders(method, hosted, body)
        sha256  == ContentSha256(method, body)
        hashed  == add(content, "x-amz-content-sha256", sha256)
        dated   == add(hashed, "x-amz-date", to_amz_date(date))
    IN  SignHeaders(dated, prov, sha256, date)

(* lines 155-167: the chunks streamed as the body of the HTTP request *)
BodyStream(method, body) ==
    IF method \in {"PUT", "POST"} /\ body # <<>> THEN body[1] ELSE <<>>

CallerHeaders == {<<>>, <<<<"Content-Type", "application/xml">>>>}

ExecBodies ==
    {<<>>, Some(<<>>), Some(<<<<97>>>>), Some(<<<<97, 98>>, <<>>, <<99, 100>>>>)}

Providers ==
    {NoProvider,
     [kind |-> "static", session_token |-> <<>>],
     [kind |-> "static", session_token |-> Some("token")]}

(* The bucket and the query parameters of the descriptor. *)
ExecTargets ==
    {[bucket |-> None, query_params |-> <<>>],
     [bucket |-> <<"a", "b", "c">>,
      query_params |-> <<<<"bucket", <<"a", "b", "c">>>>>>]}

ExecAnswers == {"success", "transport", "NoSuchBucket"}

InitExecute ==
    /\ PipelineAtRest
    /\ now = 0
    /\ has_provider = TRUE
    /\ region_map = [b \in CacheBuckets |-> "us-east-1"]
    /\ map0 = region_map
    /\ req_pc = "idle"
    /\ nreq = 0
    /\ builder = NoBuilder
    /\ desc = NoDesc
    /\ fate = <<>>
    /\ attempts = 0
    /\ validations = 0
    /\ result = NoResult
    /\ attempt_log = <<>>
    /\ \E d \in [method : Methods, headers : CallerHeaders, body : ExecBodies],
          t \in ExecTargets :
         mreq = [method |-> d.method, bucket |-> t.bucket,
                 query_params |-> t.query_params, headers |-> d.headers,
                 body |-> d.body]
    /\ shared_provider \in Providers
    /\ wire = NoWire
    /\ exec_result = NotComputed
    /\ HashAtRest
    /\ NameAtRest
    /\ TasksAtRest
    /\ CallAtRest

restOfExecute == <<hashVars, nameVars, taskVars, callVars, pipeVars, now, has_provider,
                   map0, req_pc, nreq, builder, desc, fate, attempts,
                   validations, result, attempt_log>>

(* execute, from its entry to `req.send()` *)
ExecuteInPlace ==
    /\ mreq # NoRequest
    /\ wire = NoWire
    /\ mreq' = [mreq EXCEPT
           !.headers = ExecuteHeaders(mreq.method, mreq.headers, mreq.body,
                                      shared_provider, now)]
    /\ wire' = [kind    |-> "sent",
                method  |-> mreq.method,
                query   |-> mreq.query_params,
                headers |-> mreq'.headers,
                body    |-> BodyStream(mreq.method, mreq.body)]
    /\ UNCHANGED <<shared_provider, exec_result, region_map, restOfExecute>>

Execute ==
    /\ mreq # NoRequest
    /\ wire = NoWire
    /\ wire' = [kind    |-> "sent",
                method  |-> mreq.method,
                query   |-> mreq.query_params,
                headers |-> ExecuteHeaders(mreq.method, mreq.headers, mreq.body,
                                           shared_provider, now),
                body    |-> BodyStream(mreq.method, mreq.body)]
    /\ UNCHANGED <<mreq, shared_provider, exec_result, region_map, restOfExecute>>

(* execute, from the answer to its return (lines 169-199) *)
ExecuteAnswer ==
    /\ wire # NoWire
    /\ exec_result = NotComputed
    /\ \E outcome \in ExecAnswers :
         LET e == get_error_response(outcome)
         IN  IF outcome = "success"
             THEN /\ exec_result' = Some([kind |-> "Ok"])
                  /\ UNCHANGED region_map
             ELSE IF outcome = "transport"
             THEN /\ exec_result' = Some([kind |-> "Transport"])
                  /\ UNCHANGED region_map
             ELSE /\ exec_result' = Some(e)
                  /\ region_map' = ForgetRegion(region_map, e, mreq.bucket)
    /\ UNCHANGED <<mreq, shared_provider, wire, restOfExecute>>

NextExecute == Execute \/ ExecuteAnswer

SpecExecute == InitExecute /\ [][NextExecute]_vars

Transmitted == wire # NoWire

(* C12, as stated: every request that execute transmits carries a Host, an
   x-amz-date, an x-amz-content-sha256 and an Authorization header, whatever
   the method, and with or without a body or a credential provider. *)
C12_AllFourHeadersAlways ==
    Transmitted =>
        \A k \in {"Host", "x-amz-date", "x-amz-content-sha256", "Authorization"} :
            contains_key(wire.headers, k)

(* C12, amended: every request that execute transmits carries a Host, an
   x-amz-date and an x-amz-content-sha256 header, whatever the method and
   the body; it carries an Authorization header exactly when the client has
   a credential provider (the request is signed only then). *)
C12_SignedWhenProvider ==
    Transmitted =>
        /\ \A k \in {"Host", "x-amz-date", "x-amz-content-sha256"} :
               contains_key(wire.headers, k)
        /\ contains_key(wire.headers, "Authorization")
               <=> (shared_provider # NoProvider)

C12_Witness ==
    /\ Transmitted
    /\ shared_provider = NoProvider
    /\ mreq.method = "GET"
    /\ mreq.body = <<>>
    /\ ~contains_key(wire.headers, "Authorization")

ContentHashHeader == HeaderValues(wire.headers, "x-amz-content-sha256")

(* C13, as stated: the content-hash header of a transmitted request is the
   SHA-256 of the descriptor's body when it has one and the empty-input
   digest when it has none, and is the hash of the bytes sent as the HTTP
   body, for every method. *)
C13_HashOfDescriptorBody ==
    Transmitted =>
        /\ ContentHashHeader =
               <<IF mreq.body # <<>> THEN sha256_hash(Concat(mreq.body[1]))
                                     ELSE EMPTY_SHA256>>
        /\ ContentHashHeader = <<sha256_hash(Concat(wire.body))>>

(* C13, amended: the content-hash header of a transmitted request is the
   hash of the bytes sent as the HTTP body: the SHA-256 of the descriptor's
   body for PUT and POST, and the empty-input digest when the descriptor has
   no body and for every other method, whose body is not sent. *)
C13_HashOfBytesSent ==
    Transmitted =>
        /\ ContentHashHeader = <<sha256_hash(Concat(wire.body))>>
        /\ (mreq.method \in {"PUT", "POST"} /\ mreq.body # <<>>)
               => wire.body = mreq.body[1]
        /\ (mreq.method \notin {"PUT", "POST"} \/ mreq.body = <<>>)
               => (wire.body = <<>> /\ ContentHashHeader = <<EMPTY_SHA256>>)

C13_Witness ==
    /\ Transmitted
    /\ mreq.method = "PUT"
    /\ mreq.body = Some(<<<<97, 98>>, <<>>, <<99, 100>>>>)
    /\ Concat(wire.body) = <<97, 98, 99, 100>>
    /\ ContentHashHeader # <<EMPTY_SHA256>>

BodyBytes(body) == IF body = <<>> THEN <<>> ELSE Concat(body[1])

(* C14, as stated: a transmitted request carries a Content-Length header
   exactly when its body length is known (the length of a body held in
   chunks, and of an absent body, always is), and the value is the total
   number of bytes of the body's chunks, 0 for an absent body. *)
C14_ContentLengthWhenKnown ==
    Transmitted =>
        HeaderValues(wire.headers, "Content-Length") = <<Len(BodyBytes(mreq.body))>>

(* C14, amended: a transmitted request carries a Content-Length header
   exactly when its method is PUT or POST, and the value is the total number
   of bytes of the body's chunks (0 for an absent body), the number of bytes
   sent. *)
C14_ContentLengthForPutPost ==
    Transmitted =>
        IF mreq.method \in {"PUT", "POST"}
        THEN /\ HeaderValues(wire.headers, "Content-Length")
                    = <<Len(BodyBytes(mreq.body))>>
             /\ Len(BodyBytes(mreq.body)) = Len(Concat(wire.body))
        ELSE ~contains_key(wire.headers, "Content-Length")

C14_Witness ==
    /\ Transmitted
    /\ mreq.method = "POST"
    /\ mreq.body = Some(<<<<97, 98>>, <<>>, <<99, 100>>>>)
    /\ HeaderValues(wire.headers, "Content-Length") = <<4>>

(***************************************************************************)
(* check_bucket_name called with strict = true, as the request builders    *)
(* call it, on every string of at most MaxName characters of NameChars and *)
(* on some longer names.                                                   *)
(***************************************************************************)
MaxName == 4

NameChars == {"a", "1", ".", "-", " ", "A"}

Rep(c, n) == [i \in 1..n |-> c]

RECURSIVE Strings(_)
Strings(n) ==
    IF n = 0 THEN {<<>>}
    ELSE Strings(n - 1)
             \cup {Append(s, c) : s \in {t \in Strings(n - 1) : Len(t) = n - 1},
                                  c \in NameChars}

LongNames ==
    { Rep("a", 63),
      Rep("a", 64),
      <<" ">> \o Rep("a", 63) \o <<" ">>,
      Rep("a", 62) \o <<"-">>,
      <<"1", ".", "1", ".", "1", ".", "1">>,
      <<"1", "0", ".", "2", "5", "5", ".", "0", ".", "1">>,
      <<"1", ".", "1", ".", "1", ".", "2", "5", "6">>,
      <<"1", ".", "1", ".", "1">> }

InitBucketName ==
    /\ PipelineAtRest
    /\ RequestsAtRest
    /\ ExecuteAtRest
    /\ HashAtRest
    /\ TasksAtRest
    /\ CallAtRest
    /\ cbn_name \in Strings(MaxName) \cup LongNames
    /\ cbn_result = NotComputed

CheckBucketName ==
    /\ cbn_result = NotComputed
    /\ cbn_result' = Some(check_bucket_name(cbn_name, TRUE))
    /\ UNCHANGED <<cbn_name, execVars, hashVars, taskVars, callVars, pipeVars,
                   reqVars>>

NextBucketName == CheckBucketName

SpecBucketName == InitBucketName /\ [][NextBucketName]_vars

(* The names the claim describes: 3 to 63 characters, only lowercase
   letters, digits, '.' and '-', not IPv4-shaped, none of '..', '.-', '-.'. *)
DescribedName(str) ==
    /\ Len(str) >= 3
    /\ Len(str) <= 63
    /\ \A i \in 1..Len(str) : str[i] \in Lower \cup Digit \cup {".", "-"}
    /\ ~IPV4_REGEX(str)
    /\ ~contains(str, ".", ".")
    /\ ~contains(str, ".", "-")
    /\ ~contains(str, "-", ".")

(* C15, as stated: strict validation succeeds for every described name and
   fails with InvalidBucketName for every other string. *)
C15_ValidExactlyDescribed ==
    cbn_result # NotComputed =>
        IF DescribedName(cbn_name)
        THEN cbn_result = Some("Ok")
        ELSE cbn_result = Some("InvalidBucketName")

(* C15, amended: strict validation looks at the name without its leading
   and trailing white space; it succeeds when that is a described name that
   begins and ends with a lowercase letter or a digit, and fails with
   InvalidBucketName for every other string. *)
C15_ValidAfterTrim ==
    cbn_result # NotComputed =>
        LET str == trim(cbn_name)
        IN  IF /\ DescribedName(str)
               /\ str[1] \in Lower \cup Digit
               /\ str[Len(str)] \in Lower \cup Digit
            THEN cbn_result = Some("Ok")
            ELSE cbn_result = Some("InvalidBucketName")

C15_Witness ==
    /\ cbn_name = <<"a", "-", "1", "a">>
    /\ cbn_result = Some("Ok")

(***************************************************************************)
(* C16: a non-2xx response whose error code is in neither retryable family *)
(* (AccessDenied) is returned to the caller as the error built from that   *)
(* response, after that one attempt and with the region map as it was when *)
(* the request began.                                                      *)
(***************************************************************************)
C16_OtherErrorReturnedAsIs ==
    (req_pc = "returned" /\ attempts >= 1 /\ fate[1] = "AccessDenied")
        => /\ result = get_error_response("AccessDenied")
           /\ result = [kind |-> "S3Error", code |-> "AccessDenied"]
           /\ attempts = 1
           /\ region_map = map0

C16_Witness ==
    /\ req_pc = "returned"
    /\ attempts = 1
    /\ fate[1] = "AccessDenied"
    /\ desc.bucket # None
    /\ map0[desc.bucket] # NoRegion
    /\ region_map = map0
    /\ result = [kind |-> "S3Error", code |-> "AccessDenied"]

(***************************************************************************)
(* Fairness of the request path: the runtime keeps polling the future of   *)
(* send, and the HTTP client answers every transmission with a response    *)
(* or an error.                                                            *)
(***************************************************************************)
SpecDispatchFair ==
    SpecDispatch /\ WF_vars(ExecuteTransmit) /\ WF_vars(ExecuteReturn)

(* What MadminApi::send returns: the response, or one of these errors. *)
ResultKinds == {"Ok", "Transport", "S3Error", "XmlError", "InvalidBucketName"}

(***************************************************************************)
(* C17: a logical request makes a bounded number of transmission attempts  *)
(* (at most one) and terminates: once its descriptor is built it returns,  *)
(* with the success response or a typed error.                             *)
(***************************************************************************)
C17_BoundedAttemptsAndReturn ==
    /\ [](attempts <= 1)
    /\ []((req_pc = "returned" /\ builder.kind # "DownloadObject")
              => (result.kind \in ResultKinds))
    /\ (req_pc \in {"built", "sent"}) ~> (req_pc = "returned")

C17_Witness ==
    /\ req_pc = "returned"
    /\ attempts = 1
    /\ fate[1] = "RetryHead"
    /\ result = [kind |-> "S3Error", code |-> "RetryHead"]

(***************************************************************************)
(* Concurrent requests of one client on the region map.  Each request      *)
(* resolves the region of its bucket, remembers the region it discovers    *)
(* when the map has none, is transmitted, and on a NoSuchBucket or         *)
(* RetryHead answer forgets the bucket (madmin/types.rs 191-197).  Each    *)
(* operation on the map is one step: the map is a concurrent map, locked   *)
(* for the single lookup, insert or remove.                                *)
(***************************************************************************)
MaxOps == 5

Tasks == {"t1", "t2"}

TaskRegions == {"us-east-1", "eu-west-1"}

TaskOutcomes == {"success", "NoSuchBucket", "RetryHead", "AccessDenied"}

InitTasks ==
    /\ PipelineAtRest
    /\ ExecuteAtRest
    /\ HashAtRest
    /\ NameAtRest
    /\ CallAtRest
    /\ now = 0
    /\ has_provider = TRUE
    /\ region_map = [b \in CacheBuckets |-> NoRegion]
    /\ map0 = region_map
    /\ req_pc = "idle"
    /\ nreq = 0
    /\ builder = NoBuilder
    /\ desc = NoDesc
    /\ fate = <<>>
    /\ attempts = 0
    /\ validations = 0
    /\ result = NoResult
    /\ attempt_log = <<>>
    /\ task_pc = [t \in Tasks |-> "idle"]
    /\ task_bucket = [t \in Tasks |-> None]
    /\ cache_log = <<>>

restOfTasks == <<pipeVars, execVars, hashVars, nameVars, callVars, now, has_provider,
                 map0, req_pc, nreq, builder, desc, fate, attempts,
                 validations, result, attempt_log>>

CacheOp(op, t, b, r) == [op |-> op, task |-> t, bucket |-> b, region |-> r]

TaskBegin(t) ==
    /\ task_pc[t] = "idle"
    /\ Len(cache_log) < MaxOps
    /\ \E b \in CacheBuckets : task_bucket' = [task_bucket EXCEPT ![t] = b]
    /\ task_pc' = [task_pc EXCEPT ![t] = "resolving"]
    /\ UNCHANGED <<region_map, cache_log, restOfTasks>>

(* resolve: one lookup *)
TaskResolve(t) ==
    /\ task_pc[t] = "resolving"
    /\ Len(cache_log) < MaxOps
    /\ LET region == region_map[task_bucket[t]]
       IN  /\ cache_log' = Append(cache_log,
                               CacheOp("resolve", t, task_bucket[t], region))
           /\ task_pc' = [task_pc EXCEPT
                  ![t] = IF region = NoRegion THEN "discover" ELSE "sent"]
    /\ UNCHANGED <<region_map, task_bucket, restOfTasks>>

(* remember: one insert, of the region the discovery returned *)
TaskRemember(t) ==
    /\ task_pc[t] = "discover"
    /\ Len(cache_log) < MaxOps
    /\ \E r \in TaskRegions :
         /\ region_map' = [region_map EXCEPT ![task_bucket[t]] = r]
         /\ cache_log' = Append(cache_log,
                             CacheOp("remember", t, task_bucket[t], r))
    /\ task_pc' = [task_pc EXCEPT ![t] = "sent"]
    /\ UNCHANGED <<task_bucket, restOfTasks>>

(* the answer to the request: execute, lines 171-199 *)
TaskAnswer(t) ==
    /\ task_pc[t] = "sent"
    /\ \E outcome \in TaskOutcomes :
         LET e == get_error_response(outcome)
         IN  /\ outcome \in {"NoSuchBucket", "RetryHead"} => Len(cache_log) < MaxOps
             /\ region_map' = IF outcome = "success" THEN region_map
                              ELSE ForgetRegion(region_map, e, task_bucket[t])
             /\ cache_log' = IF outcome \in {"NoSuchBucket", "RetryHead"}
                             THEN Append(cache_log,
                                      CacheOp("forget", t, task_bucket[t], NoRegion))
                             ELSE cache_log
    /\ task_pc' = [task_pc EXCEPT ![t] = "idle"]
    /\ UNCHANGED <<task_bucket, restOfTasks>>

NextTasks ==
    \E t \in Tasks :
        TaskBegin(t) \/ TaskResolve(t) \/ TaskRemember(t) \/ TaskAnswer(t)

SpecTasks == InitTasks /\ [][NextTasks]_vars

(* The region of bucket b after the operations of log: that of the latest
   remember(b, r) not followed by a forget(b), or none. *)
RECURSIVE Latest(_, _)
Latest(log, b) ==
    IF log = <<>> THEN NoRegion
    ELSE LET last == log[Len(log)]
         IN  IF last.bucket = b /\ last.op = "remember" THEN last.region
             ELSE IF last.bucket = b /\ last.op = "forget" THEN NoRegion
             ELSE Latest(SubSeq(log, 1, Len(log) - 1), b)

MaxSegs == 3

ChunkValues == {<<>>, <<97>>, <<98>>, <<97, 98>>}

RECURSIVE ChunkSeqs(_)
ChunkSeqs(n) ==
    IF n = 0 THEN {<<>>}
    ELSE ChunkSeqs(n - 1)
             \cup {Append(s, c) : s \in {t \in ChunkSeqs(n - 1) : Len(t) = n - 1},
                                  c \in ChunkValues}

InitHash ==
    /\ PipelineAtRest
    /\ RequestsAtRest
    /\ ExecuteAtRest
    /\ NameAtRest
    /\ TasksAtRest
    /\ CallAtRest
    /\ sb_chunks \in ChunkSeqs(MaxSegs)
    /\ sb_len = NotComputed
    /\ sb_hash = NotComputed

HashBody ==
    /\ sb_hash = NotComputed
    /\ sb_len' = Some(SegmentedBytes_len(sb_chunks))
    /\ sb_hash' = Some(sha256_hash_sb(sb_chunks))
    /\ UNCHANGED <<sb_chunks, execVars, nameVars, taskVars, callVars, pipeVars,
                   reqVars>>

NextHash == HashBody

SpecHash == InitHash /\ [][NextHash]_vars

HexChars == {HexDigits[i] : i \in 1..16}

(***************************************************************************)
(* C19: the content hash of a SegmentedBytes with zero chunks is the       *)
(* SHA-256 digest of the empty input, a string of exactly 64 hexadecimal   *)
(* characters, and is the constant EMPTY_SHA256 that the executor uses as  *)
(* the content hash of a request without a body.                           *)
(***************************************************************************)
C19_EmptyBodyHash ==
    (sb_hash # NotComputed /\ sb_chunks = <<>>) =>
        /\ sb_hash = Some(sha256_hash(<<>>))
        /\ Len(sb_hash[1]) = 64
        /\ \A i \in 1..Len(sb_hash[1]) : sb_hash[1][i] \in HexChars
        /\ sb_hash = Some(EMPTY_SHA256)
        /\ \A m \in Methods : ContentSha256(m, <<>>) = sb_hash[1]

C19_Witness ==
    /\ sb_chunks = <<>>
    /\ sb_len = Some(0)
    /\ sb_hash = Some(EMPTY_SHA256)

(***************************************************************************)
(* C20: the length of a SegmentedBytes is the sum of the lengths of its    *)
(* chunks, and its content hash, folded over the chunks in order, is the   *)
(* hash of the concatenation of the chunks, whatever the split.            *)
(***************************************************************************)
C20_HashOfConcatenation ==
    sb_hash # NotComputed =>
        /\ sb_len = Some(Len(Concat(sb_chunks)))
        /\ sb_hash = Some(sha256_hash(Concat(sb_chunks)))

C20_Witness ==
    /\ sb_chunks = <<<<97>>, <<>>, <<97, 98>>>>
    /\ sb_len = Some(3)
    /\ sb_hash = Some(sha256_hash(<<97, 97, 98>>))
    /\ sb_hash # Some(sha256_hash(<<97, 98>>))

(***************************************************************************)
(* C22: a descriptor is not changed by being executed: in every step of    *)
(* execute, up to its return with the response or an error, the method,    *)
(* bucket, query parameters, headers and body of the MadminRequest stay    *)
(* what they were; the headers of the attempt are added to a copy.         *)
(***************************************************************************)
C22_DescriptorUnchanged == [][mreq' = mreq]_vars

C22_Witness ==
    /\ exec_result = Some([kind |-> "S3Error", code |-> "NoSuchBucket"])
    /\ mreq.method = "PUT"
    /\ mreq.headers = <<>>
    /\ mreq.bucket # None
    /\ \A k \in {"Host", "Content-Type", "Content-Length",
                 "x-amz-content-sha256", "x-amz-date"} :
           contains_key(wire.headers, k) /\ ~contains_key(mreq.headers, k)

(***************************************************************************)
(* Single calls of the functions of s3/response, s3/utils.rs and           *)
(* s3/bucket_policy_config.rs: nothing else runs.  A Result is             *)
(* [ok |-> TRUE, value |-> v] or [ok |-> FALSE, err |-> e].                *)
(***************************************************************************)
OnlyCalls ==
    /\ PipelineAtRest
    /\ RequestsAtRest
    /\ ExecuteAtRest
    /\ HashAtRest
    /\ NameAtRest
    /\ TasksAtRest

restOfCalls == <<pipeVars, reqVars, execVars, hashVars, nameVars, taskVars>>

Ok(v) == [ok |-> TRUE, value |-> v]

Err(e) == [ok |-> FALSE, err |-> e]

(***************************************************************************)
(* GetBucketEncryptionResponse (s3/response/get_bucket_encryption.rs).     *)
(* The body of a response is EmptyBody (no bytes), MalformedBody (not XML) *)
(* or an XML document: whether it has <Rule>, whether that has             *)
(* <ApplyServerSideEncryptionByDefault>, and the <SSEAlgorithm> and        *)
(* <KMSMasterKeyID> in it, each "absent", "notext" (a tag without text)    *)
(* or its text.                                                            *)
(***************************************************************************)
EmptyBody == [kind |-> "empty"]

MalformedBody == [kind |-> "malformed"]

SseDocuments ==
    [kind : {"xml"}, rule : BOOLEAN, by_default : BOOLEAN,
     algorithm : {"absent", "notext", "AES256"},
     key : {"absent", "notext", "key1"}]

SseBodies == {EmptyBody, MalformedBody} \cup SseDocuments

HeaderMaps == {<<>>, <<<<"x-amz-request-id", "r1">>>>}

(* resp.bytes(): the body, or a failure to read it *)
HttpResponses ==
    [headers : HeaderMaps, body : SseBodies, readable : {TRUE}]
        \cup [headers : HeaderMaps, body : {EmptyBody}, readable : {FALSE}]

S3ErrorCodes ==
    {"ServerSideEncryptionConfigurationNotFoundError", "NoSuchBucket",
     "AccessDenied"}

Errors ==
    [kind : {"S3Error"}, code : S3ErrorCodes, headers : HeaderMaps]
        \cup {[kind |-> "Transport"], [kind |-> "XmlError"]}

(* SseConfig::default(): the fields empty *)
SseConfig_default == [sse_algorithm |-> "", kms_master_key_id |-> <<>>]

(* from_s3response, lines 76-101 *)
GetBucketEncryption_from_s3response_lenient(request, response) ==
    IF response.ok
    THEN IF response.value.readable
         THEN Ok([request |-> request, headers |-> response.value.headers,
                  body |-> response.value.body])
         ELSE Err([kind |-> "Transport"])
    ELSE IF response.err.kind = "S3Error"
    THEN Ok([request |-> request, headers |-> response.err.headers, body |-> EmptyBody])
    ELSE Err(response.err)

GetBucketEncryption_from_s3response(request, response) ==
    IF response.ok
    THEN IF response.value.readable
         THEN Ok([request |-> request, headers |-> response.value.headers,
                  body |-> response.value.body])
         ELSE Err([kind |-> "Transport"])
    ELSE IF /\ response.err.kind = "S3Error"
            /\ response.err.code = "ServerSideEncryptionConfigurationNotFoundError"
    THEN Ok([request |-> request, headers |-> response.err.headers, body |-> EmptyBody])
    ELSE Err(response.err)

(* get_text and get_option_text of s3/utils.rs, on the text of a child tag *)
get_text(child) ==
    IF child \in {"absent", "notext"} THEN Err([kind |-> "XmlError"]) ELSE Ok(child)

get_option_text(child) ==
    IF child = "absent" THEN <<>>
    ELSE IF child = "notext" THEN Some("")
    ELSE Some(child)

(* config, lines 52-73 *)
GetBucketEncryption_config(self) ==
    IF self.body = EmptyBody THEN Ok(SseConfig_default)
    ELSE IF self.body = MalformedBody THEN Err([kind |-> "XmlError"])
    ELSE IF ~self.body.rule THEN Err([kind |-> "XmlError"])
    ELSE IF ~self.body.by_default THEN Err([kind |-> "XmlError"])
    ELSE IF ~get_text(self.body.algorithm).ok THEN get_text(self.body.algorithm)
    ELSE Ok([sse_algorithm |-> get_text(self.body.algorithm).value,
             kms_master_key_id |-> get_option_text(self.body.key)])

S3Requests == {[bucket |-> "abc"]}

InitEncryption ==
    /\ OnlyCalls
    /\ call_args \in [request : S3Requests,
                      response : {Ok(r) : r \in HttpResponses}
                                     \cup {Err(e) : e \in Errors}]
    /\ call_iter = <<>>
    /\ call_ret = <<>>

(* the call of from_s3response on the answer *)
EncryptionFromS3Response ==
    /\ call_ret = <<>>
    /\ call_ret' = <<GetBucketEncryption_from_s3response(call_args.request,
                                                         call_args.response)>>
    /\ UNCHANGED <<call_args, call_iter, restOfCalls>>

(* the call of config() on the response built *)
EncryptionConfig ==
    /\ Len(call_ret) = 1
    /\ call_ret[1].ok
    /\ call_ret' = Append(call_ret, GetBucketEncryption_config(call_ret[1].value))
    /\ UNCHANGED <<call_args, call_iter, restOfCalls>>

NextEncryption == EncryptionFromS3Response \/ EncryptionConfig

SpecEncryption == InitEncryption /\ [][NextEncryption]_vars

NotFoundAnswer ==
    /\ ~call_args.response.ok
    /\ call_args.response.err.kind = "S3Error"
    /\ call_args.response.err.code
           = "ServerSideEncryptionConfigurationNotFoundError"

(***************************************************************************)
(* C23: when the server answered get_bucket_encryption with the error      *)
(* code ServerSideEncryptionConfigurationNotFoundError the response is     *)
(* built, with an empty body, and config() returns the default SseConfig,  *)
(* its fields empty; every other error is returned to the caller as it is. *)
(***************************************************************************)
C23_NotFoundIsEmptyConfig ==
    /\ (Len(call_ret) >= 1 /\ NotFoundAnswer) =>
           /\ call_ret[1].ok
           /\ call_ret[1].value.body = EmptyBody
    /\ (Len(call_ret) = 2 /\ NotFoundAnswer) =>
           /\ call_ret[2] = Ok(SseConfig_default)
           /\ call_ret[2].value.sse_algorithm = ""
           /\ call_ret[2].value.kms_master_key_id = <<>>
    /\ (Len(call_ret) >= 1 /\ ~call_args.response.ok /\ ~NotFoundAnswer) =>
           call_ret = <<Err(call_args.response.err)>>

C23_Witness ==
    /\ NotFoundAnswer
    /\ call_args.response.err.headers # <<>>
    /\ Len(call_ret) = 2
    /\ call_ret[1].value.headers = call_args.response.err.headers
    /\ call_ret[2] = Ok(SseConfig_default)

(***************************************************************************)
(* GetObjectResponse::from_s3response (s3/response/get_object.rs).  The    *)
(* answer carries its headers, the content length the transport reports    *)
(* (NoLength when it reports none) and the body, which is not read here.   *)
(* call_iter lists the requests issued during the call.                    *)
(***************************************************************************)
MaxLength == 3

NoLength == <<>>

Quote == "\""

ETags == {<<>>, Some(<<"e">>), Some(<<Quote, "e", Quote>>)}

VersionIds == {<<>>, Some("v1")}

GetObjectAnswers ==
    [version_id : VersionIds, etag : ETags,
     content_length : {NoLength} \cup {Some(n) : n \in 0..MaxLength}]

GetObjectRequests ==
    [region : {<<>>, Some("us-east-1")}, bucket : {Some("abc")},
     object : {Some("o")}]

(* str::trim_matches('"') *)
RECURSIVE trim_start_quotes(_)
trim_start_quotes(s) ==
    IF s # <<>> /\ Head(s) = Quote THEN trim_start_quotes(Tail(s)) ELSE s

RECURSIVE trim_end_quotes(_)
trim_end_quotes(s) ==
    IF s # <<>> /\ s[Len(s)] = Quote
    THEN trim_end_quotes(SubSeq(s, 1, Len(s) - 1))
    ELSE s

trim_matches_quote(s) == trim_end_quotes(trim_start_quotes(s))

unwrap_or(opt, default) == IF opt = <<>> THEN default ELSE opt[1]

(* from_s3response, lines 39-72 *)
GetObject_from_s3response_zero_length(req, response) ==
    Ok([region |-> unwrap_or(req.region, ""),
        bucket_name |-> req.bucket[1],
        object_name |-> req.object[1],
        version_id |-> response.version_id,
        etag |-> IF response.etag = <<>> THEN <<>>
                 ELSE Some(trim_matches_quote(response.etag[1])),
        object_size |-> unwrap_or(response.content_length, 0),
        content |-> [size |-> Some(unwrap_or(response.content_length, 0))]])

GetObject_from_s3response(req, response) ==
    IF response.content_length = NoLength
    THEN Err([kind |-> "ContentLengthUnknown"])
    ELSE Ok([region |-> unwrap_or(req.region, ""),
             bucket_name |-> req.bucket[1],
             object_name |-> req.object[1],
             version_id |-> response.version_id,
             etag |-> IF response.etag = <<>> THEN <<>>
                      ELSE Some(trim_matches_quote(response.etag[1])),
             object_size |-> response.content_length[1],
             content |-> [size |-> Some(response.content_length[1])]])

InitGetObject ==
    /\ OnlyCalls
    /\ call_args \in [req : GetObjectRequests, response : GetObjectAnswers]
    /\ call_iter = <<>>
    /\ call_ret = <<>>

GetObjectFromS3Response ==
    /\ call_ret = <<>>
    /\ call_ret' = <<GetObject_from_s3response(call_args.req, call_args.response)>>
    /\ UNCHANGED <<call_args, call_iter, restOfCalls>>

NextGetObject == GetObjectFromS3Response

SpecGetObject == InitGetObject /\ [][NextGetObject]_vars

(***************************************************************************)
(* C24: a get-object answer whose content length is not reported fails     *)
(* with ContentLengthUnknown: no GetObjectResponse is produced and no      *)
(* request is issued again.                                                *)
(***************************************************************************)
C24_UnknownLengthFails ==
    (call_ret # <<>> /\ call_args.response.content_length = NoLength) =>
        /\ call_ret = <<Err([kind |-> "ContentLengthUnknown"])>>
        /\ ~call_ret[1].ok
        /\ call_iter = <<>>

C24_Witness ==
    /\ call_args.response.content_length = NoLength
    /\ call_args.response.etag # <<>>
    /\ call_ret = <<Err([kind |-> "ContentLengthUnknown"])>>

(***************************************************************************)
(* match_hostname and match_region (s3/utils.rs 211-246), called on every  *)
(* string of at most MaxRegion characters of RegionChars and on some       *)
(* longer ones.  call_ret holds what match_region and match_hostname       *)
(* returned, in this order.                                                *)
(***************************************************************************)
MaxRegion == 3

RegionChars == {"a", "Z", "1", "-", "_", "."}

RECURSIVE StringsOver(_, _)
StringsOver(chars, n) ==
    IF n = 0 THEN {<<>>}
    ELSE LET shorter == StringsOver(chars, n - 1)
         IN  shorter \cup {Append(s, c) : s \in {t \in shorter : Len(t) = n - 1},
                                          c \in chars}

LongRegions ==
    { Rep("a", 63), Rep("a", 64), Rep("a", 62) \o <<"-">>,
      <<"u", "s", "-", "e", "a", "s", "t", "-", "1">>,
      <<"U", "S", "-", "E", "a", "s", "t", "-", "1">>,
      <<"u", "s", "_", "e", "a", "s", "t", "-">> }

UpperToLower ==
    [c \in Upper |->
        CASE c = "A" -> "a" [] c = "B" -> "b" [] c = "C" -> "c" [] c = "D" -> "d"
          [] c = "E" -> "e" [] c = "F" -> "f" [] c = "G" -> "g" [] c = "H" -> "h"
          [] c = "I" -> "i" [] c = "J" -> "j" [] c = "K" -> "k" [] c = "L" -> "l"
          [] c = "M" -> "m" [] c = "N" -> "n" [] c = "O" -> "o" [] c = "P" -> "p"
          [] c = "Q" -> "q" [] c = "R" -> "r" [] c = "S" -> "s" [] c = "T" -> "t"
          [] c = "U" -> "u" [] c = "V" -> "v" [] c = "W" -> "w" [] c = "X" -> "x"
          [] c = "Y" -> "y" [] c = "Z" -> "z"]

to_lowercase(str) ==
    [i \in 1..Len(str) |-> IF str[i] \in Upper THEN UpperToLower[str[i]] ELSE str[i]]

(* the character class [a-z_\d-] *)
LabelChar == Lower \cup Digit \cup {"_", "-"}

(* ^([a-z_\d-]{1,63})$ *)
REGION_REGEX(str) ==
    /\ Len(str) >= 1
    /\ Len(str) <= 63
    /\ \A i \in 1..Len(str) : str[i] \in LabelChar

(* str::split('.') *)
RECURSIVE split_dot(_)
split_dot(str) ==
    LET dots == {i \in 1..Len(str) : str[i] = "."}
    IN  IF dots = {} THEN <<str>>
        ELSE LET d == CHOOSE i \in dots : \A j \in dots : i <= j
             IN  <<SubSeq(str, 1, d - 1)>> \o split_dot(SubSeq(str, d + 1, Len(str)))

(* ^([a-z_\d-]{1,63}\.)*([a-z_\d-]{1,63})$ *)
HOSTNAME_REGEX(str) ==
    \A i \in 1..Len(split_dot(str)) : REGION_REGEX(split_dot(str)[i])

starts_with(str, c) == str # <<>> /\ str[1] = c

ends_with(str, c) == str # <<>> /\ str[Len(str)] = c

match_hostname(value) ==
    IF ~HOSTNAME_REGEX(to_lowercase(value))
    THEN FALSE
    ELSE \A i \in 1..Len(split_dot(value)) :
             LET token == split_dot(value)[i]
             IN  ~(\/ starts_with(token, "-")
                   \/ starts_with(token, "_")
                   \/ ends_with(token, "-")
                   \/ ends_with(token, "_"))

match_region(value) ==
    \/ ~REGION_REGEX(to_lowercase(value))
    \/ starts_with(value, "-")
    \/ starts_with(value, "_")
    \/ ends_with(value, "-")
    \/ ends_with(value, "_")

InitMatch ==
    /\ OnlyCalls
    /\ call_args \in StringsOver(RegionChars, MaxRegion) \cup LongRegions
    /\ call_iter = <<>>
    /\ call_ret = <<>>

MatchRegion ==
    /\ call_ret = <<>>
    /\ call_ret' = <<match_region(call_args)>>
    /\ UNCHANGED <<call_args, call_iter, restOfCalls>>

MatchHostname ==
    /\ Len(call_ret) = 1
    /\ call_ret' = Append(call_ret, match_hostname(call_args))
    /\ UNCHANGED <<call_args, call_iter, restOfCalls>>

NextMatch == MatchRegion \/ MatchHostname

SpecMatch == InitMatch /\ [][NextMatch]_vars

(* The regions the claim describes. *)
DescribedRegion(str) ==
    /\ Len(str) >= 1
    /\ Len(str) <= 63
    /\ \A i \in 1..Len(str) : str[i] \in Lower \cup Upper \cup Digit \cup {"_", "-"}
    /\ str[1] \notin {"-", "_"}
    /\ str[Len(str)] \notin {"-", "_"}

(***************************************************************************)
(* C25: match_region returns true exactly for the strings of 1 to 63       *)
(* letters, digits, '_' and '-' (case-insensitively) that neither start    *)
(* nor end with '-' or '_', and false for every other string, in the same  *)
(* sense in which match_hostname returns true for valid hostnames: on a    *)
(* string without a dot the two agree.                                     *)
(***************************************************************************)
C25_TrueExactlyForValidRegions ==
    /\ Len(call_ret) >= 1 => call_ret[1] = DescribedRegion(call_args)
    /\ (Len(call_ret) = 2 /\ \A i \in 1..Len(call_args) : call_args[i] # ".") =>
           call_ret[1] = call_ret[2]

(***************************************************************************)
(* The bytes of the chunks read below an offset: the sum of the byte       *)
(* counts of the completed reads whose offset is lower.                    *)
(***************************************************************************)
RECURSIVE BytesBelow(_, _)
BytesBelow(chunks, off) ==
    IF chunks = <<>> THEN 0
    ELSE (IF Head(chunks).off < off THEN Head(chunks).n ELSE 0)
             + BytesBelow(Tail(chunks), off)

(***************************************************************************)
(* C26: for every chunk a driver associates with a target offset, that     *)
(* offset equals the sum of the payload lengths of all chunks with lower   *)
(* offsets (from 0, without gaps or overlaps), also after short reads, in  *)
(* the sequential and in the windowed driver.  A chunk is compared once    *)
(* every read started below its offset has returned.                       *)
(***************************************************************************)
C26_OffsetIsBytesBelow ==
    \A i \in 1..Len(completed) :
        (/\ completed[i].n > 0
         /\ \A o \in Range(started) :
                o < completed[i].off => o \in Range(CompletedOffsets))
            => completed[i].off = BytesBelow(completed, completed[i].off)

(***************************************************************************)
(* Bucket policies (s3/bucket_policy_config.rs).  A statement has an       *)
(* effect, a principal, its actions and resources in order, and its        *)
(* conditions, a map written as the set of its <<operator, key, values>>   *)
(* entries.  Strings are sequences of characters.                          *)
(***************************************************************************)
MaxStatements == 3

Actions == {"GetObject", "PutObject"}

PolicyBuckets == {<<"a">>, <<"a", "b">>}

ResourceLists == {<<<<"a", "/", "*">>>>, <<<<"x">>, <<"a", "b", "/", "*">>>>}

(* str::contains(&str) *)
str_contains(str, pat) ==
    \E i \in 0..(Len(str) - Len(pat)) : SubSeq(str, i + 1, i + Len(pat)) = pat

(* Vec::contains *)
vec_contains(v, x) == \E i \in 1..Len(v) : v[i] = x

(* BPStatement::is_allowed, lines 56-65 *)
BPStatement_is_allowed(self, args) ==
    /\ vec_contains(self.actions, args.action)
    /\ \E i \in 1..Len(self.resources) :
           str_contains(self.resources[i], args.bucket_name)

(* BPStatement::equals, lines 67-73 *)
BPStatement_equals(self, other) ==
    /\ self.effect = other.effect
    /\ self.principal = other.principal
    /\ self.actions = other.actions
    /\ self.resources = other.resources
    /\ self.conditions = other.conditions

(* BucketPolicy::is_allowed, lines 114-135 *)
BucketPolicy_is_allowed(self, args) ==
    IF \E i \in 1..Len(self.statements) :
           /\ self.statements[i].effect = "Deny"
           /\ ~BPStatement_is_allowed(self.statements[i], args)
    THEN FALSE
    ELSE IF args.is_owner
    THEN TRUE
    ELSE \E i \in 1..Len(self.statements) :
             /\ self.statements[i].effect = "Allow"
             /\ BPStatement_is_allowed(self.statements[i], args)

RECURSIVE ListsOver(_, _)
ListsOver(elems, n) ==
    IF n = 0 THEN {<<>>}
    ELSE LET shorter == ListsOver(elems, n - 1)
         IN  shorter \cup {Append(s, e) : s \in {t \in shorter : Len(t) = n - 1},
                                          e \in elems}

AccessStatements ==
    [effect : {"Allow", "Deny"}, principal : {<<>>},
     actions : {<<"GetObject">>, <<"PutObject">>},
     resources : ResourceLists, conditions : {{}}]

BucketPolicyArgs ==
    [action : Actions, bucket_name : PolicyBuckets, is_owner : BOOLEAN]

InitIsAllowed ==
    /\ OnlyCalls
    /\ call_args \in [self : [statements : ListsOver(AccessStatements, MaxStatements)],
                      args : BucketPolicyArgs]
    /\ call_iter = <<>>
    /\ call_ret = <<>>

IsAllowed ==
    /\ call_ret = <<>>
    /\ call_ret' = <<BucketPolicy_is_allowed(call_args.self, call_args.args)>>
    /\ UNCHANGED <<call_args, call_iter, restOfCalls>>

NextIsAllowed == IsAllowed

SpecIsAllowed == InitIsAllowed /\ [][NextIsAllowed]_vars

(* some statement of the given effect matches the request *)
SomeMatches(effect) ==
    \E i \in 1..Len(call_args.self.statements) :
        /\ call_args.self.statements[i].effect = effect
        /\ BPStatement_is_allowed(call_args.self.statements[i], call_args.args)

(***************************************************************************)
(* C27: BucketPolicy::is_allowed returns false whenever some Deny          *)
(* statement matches the request (its actions contain the requested        *)
(* action and one of its resources contains the bucket name), whatever     *)
(* is_owner and the Allow statements are; when no Deny statement matches   *)
(* it returns true if is_owner is set or some Allow statement matches,     *)
(* and false otherwise.                                                    *)
(***************************************************************************)
C27_DenyFirst ==
    call_ret # <<>> =>
        call_ret[1] = IF SomeMatches("Deny")
                      THEN FALSE
                      ELSE (call_args.args.is_owner \/ SomeMatches("Allow"))

(***************************************************************************)
(* BucketPolicy::drop_duplicate_statements, lines 157-170: the statements  *)
(* are drained in order and one is kept when no statement kept so far      *)
(* equals it.  call_ret holds the statements after each call.              *)
(***************************************************************************)
RECURSIVE DrainAdjacent(_, _)
DrainAdjacent(statements, unique_statements) ==
    IF statements = <<>> THEN unique_statements
    ELSE DrainAdjacent(
             Tail(statements),
             IF /\ unique_statements # <<>>
                /\ BPStatement_equals(unique_statements[Len(unique_statements)],
                                      Head(statements))
             THEN unique_statements
             ELSE Append(unique_statements, Head(statements)))

RECURSIVE Drain(_, _)
Drain(statements, unique_statements) ==
    IF statements = <<>> THEN unique_statements
    ELSE Drain(
             Tail(statements),
             IF \E i \in 1..Len(unique_statements) :
                    BPStatement_equals(unique_statements[i], Head(statements))
             THEN unique_statements
             ELSE Append(unique_statements, Head(statements)))

drop_adjacent_duplicate_statements(self) ==
    [self EXCEPT !.statements = DrainAdjacent(self.statements, <<>>)]

drop_duplicate_statements(self) ==
    [self EXCEPT !.statements = Drain(self.statements, <<>>)]

(* a statement and five others, each different from it in one field *)
BaseStatement ==
    [effect |-> "Allow", principal |-> <<>>,
     actions |-> <<"GetObject", "PutObject">>,
     resources |-> <<<<"a", "/", "*">>>>, conditions |-> {}]

DistinctStatements ==
    { BaseStatement,
      [BaseStatement EXCEPT !.effect = "Deny"],
      [BaseStatement EXCEPT !.principal = Some("*")],
      [BaseStatement EXCEPT !.actions = <<"PutObject", "GetObject">>],
      [BaseStatement EXCEPT !.resources = <<<<"a", "b", "/", "*">>>>],
      [BaseStatement EXCEPT !.conditions = {<<"StringEquals", "aws:Referer", <<"x">>>>}] }

InitDropDuplicates ==
    /\ OnlyCalls
    /\ call_args \in [statements : ListsOver(DistinctStatements, MaxStatements)]
    /\ call_iter = <<>>
    /\ call_ret = <<>>

DropDuplicateStatements ==
    /\ Len(call_ret) < 2
    /\ call_ret' = Append(call_ret,
                          drop_duplicate_statements(
                              IF call_ret = <<>> THEN call_args
                              ELSE call_ret[Len(call_ret)]))
    /\ UNCHANGED <<call_args, call_iter, restOfCalls>>

NextDropDuplicates == DropDuplicateStatements

SpecDropDuplicates == InitDropDuplicates /\ [][NextDropDuplicates]_vars

(* the positions of the statements that equal no earlier one *)
FirstOccurrences(l) ==
    {i \in 1..Len(l) : \A j \in 1..(i - 1) : ~BPStatement_equals(l[j], l[i])}

(***************************************************************************)
(* C30: after drop_duplicate_statements no two statements of the policy    *)
(* are equal under BPStatement::equals, every statement of the original    *)
(* list has an equal statement in the result, the kept statements are the  *)
(* first occurrences in their original relative order, and a second        *)
(* application changes nothing.                                            *)
(***************************************************************************)
C30_DropDuplicates ==
    /\ call_ret # <<>> =>
           LET l == call_args.statements
               r == call_ret[1].statements
           IN  /\ \A i, j \in 1..Len(r) :
                      i # j => ~BPStatement_equals(r[i], r[j])
               /\ \A i \in 1..Len(l) : \E j \in 1..Len(r) :
                      BPStatement_equals(r[j], l[i])
               /\ Len(r) = Cardinality(FirstOccurrences(l))
               /\ \A k \in 1..Len(r) : \E i \in FirstOccurrences(l) :
                      /\ r[k] = l[i]
                      /\ Cardinality({j \in FirstOccurrences(l) : j < i}) = k - 1
    /\ Len(call_ret) = 2 => call_ret[2] = call_ret[1]

C30_Witness ==
    /\ Len(call_ret) = 2
    /\ Len(call_args.statements) = 3
    /\ call_args.statements[1] = call_args.statements[3]
    /\ call_args.statements[1] # call_args.statements[2]
    /\ call_args.statements[2].conditions # {}
    /\ call_ret[1].statements = SubSeq(call_args.statements, 1, 2)

(***************************************************************************)
(* MergeXmlElements (s3/utils.rs 556-602): an iterator over two lists of   *)
(* (child index, element) pairs.  call_args holds v1 and v2, call_iter     *)
(* the positions <<i1, i2>>, and call_ret what the calls of next returned  *)
(* so far, Some(element) or Nothing.  An element is written as the list    *)
(* it comes from and its place there.                                      *)
(***************************************************************************)
MaxElems == 3

Nothing == <<>>

MaxIndex == 2

IsSorted(s) == \A i \in 1..(Len(s) - 1) : s[i] <= s[i + 1]

SortedIndexLists == {s \in ListsOver(0..MaxIndex, MaxElems) : IsSorted(s)}

XmlElements(list, indexes) ==
    [k \in 1..Len(indexes) |-> <<indexes[k], [list |-> list, place |-> k]>>]

(* Vec::get *)
vec_get(v, i) == IF i < Len(v) THEN Some(v[i + 1]) ELSE Nothing

(* MergeXmlElements::new, lines 564-573 *)
MergeXmlElements_new(v1, v2) == [v1 |-> v1, v2 |-> v2, i1 |-> 0, i2 |-> 0]

(* Iterator::next, lines 578-601: the iterator after the call and the item *)
MergeXmlElements_next_largest_first(self) ==
    LET c1 == vec_get(self.v1, self.i1)
        c2 == vec_get(self.v2, self.i2)
    IN  IF c1 # Nothing /\ c2 # Nothing
        THEN IF c1[1][1] > c2[1][1]
             THEN [self |-> [self EXCEPT !.i1 = @ + 1], item |-> Some(c1[1][2])]
             ELSE [self |-> [self EXCEPT !.i2 = @ + 1], item |-> Some(c2[1][2])]
        ELSE IF c1 # Nothing
        THEN [self |-> [self EXCEPT !.i1 = @ + 1], item |-> Some(c1[1][2])]
        ELSE IF c2 # Nothing
        THEN [self |-> [self EXCEPT !.i2 = @ + 1], item |-> Some(c2[1][2])]
        ELSE [self |-> self, item |-> Nothing]

MergeXmlElements_next(self) ==
    LET c1 == vec_get(self.v1, self.i1)
        c2 == vec_get(self.v2, self.i2)
    IN  IF c1 # Nothing /\ c2 # Nothing
        THEN IF c1[1][1] < c2[1][1]
             THEN [self |-> [self EXCEPT !.i1 = @ + 1], item |-> Some(c1[1][2])]
             ELSE [self |-> [self EXCEPT !.i2 = @ + 1], item |-> Some(c2[1][2])]
        ELSE IF c1 # Nothing
        THEN [self |-> [self EXCEPT !.i1 = @ + 1], item |-> Some(c1[1][2])]
        ELSE IF c2 # Nothing
        THEN [self |-> [self EXCEPT !.i2 = @ + 1], item |-> Some(c2[1][2])]
        ELSE [self |-> self, item |-> Nothing]

InitMerge ==
    /\ OnlyCalls
    /\ \E a, b \in SortedIndexLists :
           LET it == MergeXmlElements_new(XmlElements(1, a), XmlElements(2, b))
           IN  /\ call_args = [v1 |-> it.v1, v2 |-> it.v2]
               /\ call_iter = <<it.i1, it.i2>>
    /\ call_ret = <<>>

(* one call of next, until it has returned None *)
MergeNext ==
    /\ IF call_ret = <<>> THEN TRUE ELSE call_ret[Len(call_ret)] # Nothing
    /\ LET r == MergeXmlElements_next([v1 |-> call_args.v1, v2 |-> call_args.v2,
                                        i1 |-> call_iter[1], i2 |-> call_iter[2]])
       IN  /\ call_iter' = <<r.self.i1, r.self.i2>>
           /\ call_ret' = Append(call_ret, r.item)
    /\ UNCHANGED <<call_args, restOfCalls>>

NextMerge == MergeNext

SpecMerge == InitMerge /\ [][NextMerge]_vars

(* the child index of a yielded element *)
IndexOf(el) ==
    IF el.list = 1 THEN call_args.v1[el.place][1] ELSE call_args.v2[el.place][1]

Yielded == SelectSeq(call_ret, LAMBDA r : r # Nothing)

AllElements ==
    {call_args.v1[k][2] : k \in 1..Len(call_args.v1)}
        \cup {call_args.v2[k][2] : k \in 1..Len(call_args.v2)}

(***************************************************************************)
(* C28: given two lists that are each sorted ascending by child index,     *)
(* the iteration yields every element of both lists exactly once, in       *)
(* non-decreasing index order, and then ends.                              *)
(***************************************************************************)
C28_MergesLikeMergeSort ==
    /\ \A i \in 1..(Len(Yielded) - 1) :
           IndexOf(Yielded[i][1]) <= IndexOf(Yielded[i + 1][1])
    /\ \A i, j \in 1..Len(Yielded) : i # j => Yielded[i] # Yielded[j]
    /\ \A i \in 1..Len(Yielded) : Yielded[i][1] \in AllElements
    /\ \A i \in 1..(Len(call_ret) - 1) : call_ret[i] # Nothing
    /\ (call_ret # <<>> /\ call_ret[Len(call_ret)] = Nothing) <=>
           Len(call_ret) = Len(call_args.v1) + Len(call_args.v2) + 1

C28_Witness ==
    /\ Len(call_args.v1) = 2
    /\ Len(call_args.v2) = 2
    /\ call_args.v1[1][1] < call_args.v2[1][1]
    /\ call_args.v2[1][1] < call_args.v1[2][1]
    /\ call_args.v1[2][1] = call_args.v2[2][1]
    /\ Len(call_ret) = 5
    /\ call_ret[5] = Nothing
    /\ call_iter = <<2, 2>>

(***************************************************************************)
(* encode_tags and parse_tags (s3/utils.rs 385-439).  A string is the      *)
(* sequence of the bytes of its UTF-8 encoding; a map is the set of its    *)
(* <<key, value>> entries, one per key.  A HashMap is iterated in an       *)
(* order the program does not choose: encode_tags takes the order as an    *)
(* input.                                                                  *)
(***************************************************************************)
MaxTags == 2

Amp == 38

Eq == 61

Percent == 37

(* "", "a", "a=b&c", "%25", "e-acute %", "~ _" *)
TagStrings ==
    { <<>>, <<97>>, <<97, 61, 98, 38, 99>>, <<37, 50, 53>>, <<195, 169, 37>>,
      <<126, 32, 95>> }

(* QUERY_ESCAPE leaves: ASCII letters and digits, '-', '_', '.', '~' *)
Unreserved ==
    (48..57) \cup (65..90) \cup (97..122) \cup {45, 95, 46, 126}

HexCode(d) == IF d < 10 THEN 48 + d ELSE 55 + d

IsHexCode(b) == b \in (48..57) \cup (65..70) \cup (97..102)

HexValue(b) ==
    IF b \in 48..57 THEN b - 48 ELSE IF b \in 65..70 THEN b - 55 ELSE b - 87

(* utf8_percent_encode(s, QUERY_ESCAPE) *)
RECURSIVE escape(_)
escape(s) ==
    IF s = <<>> THEN <<>>
    ELSE (IF Head(s) \in Unreserved
          THEN <<Head(s)>>
          ELSE <<Percent, HexCode(Head(s) \div 16), HexCode(Head(s) % 16)>>)
             \o escape(Tail(s))

(* percent_decode_str: %XY with two hex digits is one byte, any other byte
   is itself *)
RECURSIVE percent_decode(_)
percent_decode(s) ==
    IF s = <<>> THEN <<>>
    ELSE IF /\ Head(s) = Percent
            /\ Len(s) >= 3
            /\ IsHexCode(s[2])
            /\ IsHexCode(s[3])
    THEN <<16 * HexValue(s[2]) + HexValue(s[3])>>
             \o percent_decode(SubSeq(s, 4, Len(s)))
    ELSE <<Head(s)>> \o percent_decode(Tail(s))

(* UTF-8 of the code points below U+0800: one byte below 0x80, or a lead
   byte 0xC2..0xDF and a continuation byte 0x80..0xBF *)
RECURSIVE is_utf8(_)
is_utf8(bytes) ==
    IF bytes = <<>> THEN TRUE
    ELSE IF Head(bytes) < 128 THEN is_utf8(Tail(bytes))
    ELSE /\ Head(bytes) \in 194..223
         /\ Len(bytes) >= 2
         /\ bytes[2] \in 128..191
         /\ is_utf8(SubSeq(bytes, 3, Len(bytes)))

unescape(s) ==
    IF is_utf8(percent_decode(s))
    THEN Ok(percent_decode(s))
    ELSE Err([kind |-> "TagDecodingError"])

(* str::split on one byte *)
RECURSIVE split(_, _)
split(s, sep) ==
    LET at == {i \in 1..Len(s) : s[i] = sep}
    IN  IF at = {} THEN <<s>>
        ELSE LET d == CHOOSE i \in at : \A j \in at : i <= j
             IN  <<SubSeq(s, 1, d - 1)>> \o split(SubSeq(s, d + 1, Len(s)), sep)

(* [String]::join("&") *)
RECURSIVE join(_, _)
join(strs, sep) ==
    IF strs = <<>> THEN <<>>
    ELSE IF Len(strs) = 1 THEN strs[1]
    ELSE strs[1] \o <<sep>> \o join(Tail(strs), sep)

(* HashMap::insert *)
insert(tags, k, v) == {e \in tags : e[1] # k} \cup {<<k, v>>}

(* the orders in which a map can be iterated *)
IterationOrders(h) ==
    {o \in [1..Cardinality(h) -> h] : \A i, j \in 1..Cardinality(h) :
                                          i # j => o[i] # o[j]}

(* encode_tags, lines 391-397, iterating h in the order entries *)
encode_tags(entries) ==
    join([i \in 1..Len(entries) |->
             escape(entries[i][1]) \o <<Eq>> \o escape(entries[i][2])], Amp)

(* parse_tags, lines 413-439: the loop over the tags from the i-th on *)
RECURSIVE parse_tags_from(_, _, _)
parse_tags_from(parts, i, tags) ==
    IF i > Len(parts) THEN Ok(tags)
    ELSE LET kv == split(parts[i], Eq)
             k  == unescape(kv[1])
             v  == IF Len(kv) >= 2 THEN unescape(kv[2]) ELSE Ok(<<>>)
         IN  IF ~k.ok THEN k
             ELSE IF ~v.ok THEN v
             ELSE IF Len(kv) >= 3 THEN Err([kind |-> "TagDecodingError"])
             ELSE parse_tags_from(parts, i + 1, insert(tags, k.value, v.value))

parse_tags(s) == parse_tags_from(split(s, Amp), 1, {})

TagMaps ==
    UNION {{{<<k, f[k]>> : k \in keys} : f \in [keys -> TagStrings]} :
              keys \in {ks \in SUBSET TagStrings : Cardinality(ks) <= MaxTags}}

InitTags ==
    /\ OnlyCalls
    /\ call_args \in TagMaps
    /\ call_iter = <<>>
    /\ call_ret = <<>>

EncodeTags ==
    /\ call_ret = <<>>
    /\ \E o \in IterationOrders(call_args) : call_ret' = <<encode_tags(o)>>
    /\ UNCHANGED <<call_args, call_iter, restOfCalls>>

ParseTags ==
    /\ Len(call_ret) = 1
    /\ call_ret' = Append(call_ret, parse_tags(call_ret[1]))
    /\ UNCHANGED <<call_args, call_iter, restOfCalls>>

NextTags == EncodeTags \/ ParseTags

SpecTags == InitTags /\ [][NextTags]_vars

(***************************************************************************)
(* C29: parse_tags(encode_tags(h)) succeeds and equals h for every map h   *)
(* of string keys and values, the empty map and keys or values with '=',   *)
(* '&' or '%' included.                                                    *)
(***************************************************************************)
C29_TagsRoundTrip ==
    Len(call_ret) = 2 => call_ret[2] = Ok(call_args)

====
